---- MODULE Spec2Model ----
(***************************************************************************)
(* Signal-to-position lifecycle of the openalgo Telegram signal pipeline:  *)
(* SignalExecutionService (services/signal_execution_service.py) and the   *)
(* part of PositionMonitor (services/position_monitor_service.py) that it  *)
(* drives.                                                                 *)
(*                                                                         *)
(* Prices are fixed-point integers in hundredths of a price unit           *)
(* (100.10 is 10010); an absent / falsy field is "" for a string, 0 for a  *)
(* number and << >> for a list.  Time is in whole seconds.                 *)
(*                                                                         *)
(* In execute_signal the statements of lines 291-328 are read as the rest  *)
(* of the body of the try opened on line 258 (they are closed by the       *)
(* except of line 329).                                                    *)
(***************************************************************************)
EXTENDS Integers, Sequences, FiniteSets, TLC

(* ------------------------------ bounds -------------------------------- *)
MaxCalls == 2
MaxDupCalls == 3
MaxTime == 5
MaxMonCalls == 3
MaxClosures == 102

\* the messages the listener processes in one run
MaxMessages == 3

(* ------------------------- program constants -------------------------- *)
duplicate_window == 5
confidence_threshold == 70
min_entry_tolerance == 10
max_entry_tolerance == 150
min_entry_buffer == 10
max_entry_buffer == 100
LimitFillBuffer == 5
message_buffer_limit == 50
T2Offset == 200
T3Offset == 400

(* ------------------------------ inputs -------------------------------- *)
Channels == {"chA", "chB"}
Confidences == {50, 90}
EntryPrices == {10000}
QuoteOffsets == {-155, -150, -145, -10, -5, 0, 5, 10, 145, 150, 155}

Signal(a, sy, st, ot, p, c, sl, tg, t) ==
    [action |-> a, symbol |-> sy, strike |-> st, option_type |-> ot,
     price |-> p, condition |-> c, sl |-> sl, targets |-> tg, tgt |-> t]

\* the signal payloads the classifier, the regex fallback and the LLM parser
\* can hand over: a condition only comes with a price
SignalSpace ==
    { Signal(a, sy, k[1], k[2], pc[1], pc[2], 0, tt[1], tt[2]) :
        a \in {"", "BUY", "SELL", "buy"}, sy \in {"", "NIFTY"},
        k \in {<< "", "" >>, << "22000", "CE" >>, << "22000", "" >>, << "", "CE" >>,
               << "ATM", "CE" >>},
        pc \in {<< 0, "" >>} \cup (EntryPrices \X {"", "above", "below", "at", "ABOVE"}),
        tt \in {<< << >>, 0 >>, << << >>, 11000 >>, << << 11000 >>, 11000 >>,
                 << << 11000, 11200 >>, 11200 >>, << << 11000 >>, 0 >>} }

\* the payloads used where the order of calls matters: two hashes, each
\* with and without the mandatory target
MainSignals ==
    { s \in SignalSpace :
        /\ s.action \in {"BUY", "SELL"} /\ s.symbol = "NIFTY"
        /\ s.strike = "" /\ s.option_type = "" /\ s.price = 0
        /\ s.targets \in {<< >>, << 11000 >>} /\ s.tgt = 0 }

\* the payloads used where the time between calls matters: two spellings
\* of one hash and a second hash
DupSignals ==
    { s \in SignalSpace :
        /\ s.action \in {"BUY", "buy", "SELL"} /\ s.symbol = "NIFTY"
        /\ s.strike = "" /\ s.option_type = "" /\ s.price = 0
        /\ s.targets = << 11000 >> /\ s.tgt = 0 }

Quotes ==
    {[kind |-> "raise", lp |-> 0], [kind |-> "empty", lp |-> 0],
     [kind |-> "lp", lp |-> 0], [kind |-> "lp", lp |-> -100]}
    \cup {[kind |-> "lp", lp |-> e + d] : e \in EntryPrices, d \in QuoteOffsets}

Resolutions ==
    {[found |-> FALSE, symbol |-> "", lotsize |-> 0],
     [found |-> TRUE, symbol |-> "NIFTY26JAN22000CE", lotsize |-> 50]}

Env(q, r, a, p, s, l) ==
    [quote |-> q, resolved |-> r, auth |-> a, place |-> p, status |-> s, lots |-> l]

NotResolved == [found |-> FALSE, symbol |-> "", lotsize |-> 0]
NoQuote == [kind |-> "empty", lp |-> 0]

\* what the auth lookup, order placement and the order-status query answer
Answers ==
    {<< "ok", "success", "complete" >>, << "ok", "success", "open" >>,
     << "ok", "fail", "missing" >>, << "ok", "raise", "missing" >>,
     << "none", "success", "missing" >>, << "raise", "success", "missing" >>}

\* what the collaborators can answer during one call
EntryEnvs ==
    { Env(q, r, f[1], f[2], f[3], 1) :
        q \in Quotes, r \in Resolutions, f \in Answers }

MainEnvs ==
    { Env(NoQuote, NotResolved, f[1], f[2], f[3], 2) :
        f \in {g \in Answers : g[1] = "ok"} }

NoEnv == Env(NoQuote, NotResolved, "ok", "success", "complete", 1)

NoSignal == Signal("", "", "", "", 0, "", 0, << >>, 0)

\* the None a group of the regex fallback holds when it took part in no
\* match (line 254), and what Python takes for true among the field values
PyNone == "None"
Given(v) == v # "" /\ v # PyNone

\* str.upper() on the strings that occur as field values
Upper(s) ==
    CASE s = "buy" -> "BUY"
      [] s = "None" -> "NONE"
      [] s = "sell" -> "SELL"
      [] s = "ce" -> "CE"
      [] s = "nifty" -> "NIFTY"
      [] OTHER -> s

\* str.lower() on the condition keywords
Lower(s) ==
    CASE s = "ABOVE" -> "above"
      [] s = "BELOW" -> "below"
      [] OTHER -> s

(* --------------------------- duplicate gate --------------------------- *)
_generate_signal_hash(sig) ==
    << Upper(sig.action), Upper(sig.symbol), Upper(sig.strike), Upper(sig.option_type) >>

RECURSIVE SelectSeqFresh(_, _)
\* the list comprehension of lines 84-87: keep the entries younger than the window
SelectSeqFresh(entries, t) ==
    IF entries = << >> THEN << >>
    ELSE LET rest == SelectSeqFresh(Tail(entries), t)
         IN IF t - Head(entries)[2] < duplicate_window
            THEN << Head(entries) >> \o rest
            ELSE rest

\* _is_duplicate that does not record the signal it lets through
IsDuplicateForgetting(recent, channel, sig, t) ==
    LET h == _generate_signal_hash(sig)
        kept == SelectSeqFresh(recent[channel], t)
        dup == \E i \in 1..Len(kept) : kept[i][1] = h
    IN [dup |-> dup, recent |-> [recent EXCEPT ![channel] = kept]]

\* _is_duplicate that also stamps a suppressed duplicate into the list
IsDuplicateRefreshing(recent, channel, sig, t) ==
    LET h == _generate_signal_hash(sig)
        kept == SelectSeqFresh(recent[channel], t)
        dup == \E i \in 1..Len(kept) : kept[i][1] = h
    IN [dup |-> dup,
        recent |-> [recent EXCEPT ![channel] = Append(kept, << h, t >>)]]

\* _is_duplicate that looks for the hash in the lists of all channels
IsDuplicateAcrossChannels(recent, channel, sig, t) ==
    LET h == _generate_signal_hash(sig)
        kept == SelectSeqFresh(recent[channel], t)
        dup == \E c \in DOMAIN recent :
                  \E i \in 1..Len(recent[c]) :
                     recent[c][i][1] = h /\ t - recent[c][i][2] < duplicate_window
    IN [dup |-> dup,
        recent |-> [recent EXCEPT ![channel] =
                       IF dup THEN kept ELSE Append(kept, << h, t >>)]]

\* result of _is_duplicate: the verdict and the channel's list afterwards
_is_duplicate(recent, channel, sig, t) ==
    LET h == _generate_signal_hash(sig)
        kept == SelectSeqFresh(recent[channel], t)
        dup == \E i \in 1..Len(kept) : kept[i][1] = h
    IN [dup |-> dup,
        recent |-> [recent EXCEPT ![channel] =
                       IF dup THEN kept ELSE Append(kept, << h, t >>)]]

(* ------------------------ structural validation ----------------------- *)
\* _validate_signal without the mandatory-target check
ValidateWithoutTarget(sig) ==
    IF sig.action = "" THEN [ok |-> FALSE, error |-> "Missing 'action' (BUY/SELL)"]
    ELSE IF sig.symbol = "" THEN [ok |-> FALSE, error |-> "Missing 'symbol'"]
    ELSE IF (Given(sig.strike) \/ Given(sig.option_type)) /\ ~Given(sig.strike)
         THEN [ok |-> FALSE, error |-> "Options signal missing 'strike'"]
    ELSE IF (Given(sig.strike) \/ Given(sig.option_type)) /\ ~Given(sig.option_type)
         THEN [ok |-> FALSE, error |-> "Options signal missing 'option_type' (CE/PE)"]
    ELSE [ok |-> TRUE, error |-> ""]

_validate_signal(sig) ==
    IF sig.action = "" THEN [ok |-> FALSE, error |-> "Missing 'action' (BUY/SELL)"]
    ELSE IF sig.symbol = "" THEN [ok |-> FALSE, error |-> "Missing 'symbol'"]
    ELSE IF ~(sig.tgt # 0 \/ sig.targets # << >>)
         THEN [ok |-> FALSE, error |-> "Missing Mandatory Target"]
    ELSE IF (Given(sig.strike) \/ Given(sig.option_type)) /\ ~Given(sig.strike)
         THEN [ok |-> FALSE, error |-> "Options signal missing 'strike'"]
    ELSE IF (Given(sig.strike) \/ Given(sig.option_type)) /\ ~Given(sig.option_type)
         THEN [ok |-> FALSE, error |-> "Options signal missing 'option_type' (CE/PE)"]
    ELSE [ok |-> TRUE, error |-> ""]

(* -------------------------- order conversion -------------------------- *)
NoOrder ==
    [symbol |-> "", exchange |-> "", action |-> "", quantity |-> 0, price |-> 0,
     pricetype |-> "", trigger_price |-> 0, product |-> "", targets |-> << >>]

\* exchange routing of an options signal (lines 384-392)
OptionExchange(symbol) ==
    IF symbol \in {"NIFTY", "BANKNIFTY", "FINNIFTY", "MIDCPNIFTY"} THEN "NFO"
    ELSE IF symbol \in {"SENSEX", "BANKEX"} THEN "BFO"
    ELSE IF symbol \in {"CRUDEOIL", "GOLD", "SILVER", "NATURALGAS", "COPPER", "ZINC"} THEN "MCX"
    ELSE "NFO"

\* exchange routing of a futures / cash signal (lines 415-422)
CashExchange(symbol) ==
    IF symbol \in {"NIFTY", "BANKNIFTY", "FINNIFTY", "MIDCPNIFTY"} THEN "NFO"
    ELSE IF symbol \in {"SENSEX", "BANKEX"} THEN "BFO"
    ELSE IF symbol \in {"CRUDEOIL", "GOLD", "SILVER", "NATURALGAS"} THEN "MCX"
    ELSE "NSE"

\* current_ltp after the guarded quote fetch (lines 437-447): the quote
\* collaborator raises, returns nothing / no 'lp', or returns a last price
current_ltp(quote) ==
    IF quote.kind = "lp" THEN quote.lp ELSE 0

Decision(pricetype, trigger, price) ==
    [raised |-> FALSE, error |-> "", pricetype |-> pricetype,
     trigger |-> trigger, price |-> price]

Refusal(error) ==
    [raised |-> TRUE, error |-> error, pricetype |-> "", trigger |-> 0, price |-> 0]

\* BuyEntry with the upper edge of the chase band left out
BuyEntryOpenBand(entry_price, ltp) ==
    IF ltp < entry_price THEN
        Decision("SL", entry_price + min_entry_tolerance,
                 entry_price + max_entry_tolerance)
    ELSE IF entry_price + min_entry_tolerance <= ltp
            /\ ltp < entry_price + max_entry_tolerance THEN
        Decision("LIMIT", 0, ltp + LimitFillBuffer)
    ELSE IF ltp < entry_price + min_entry_tolerance THEN
        Refusal("ValueError: waiting")
    ELSE
        Refusal("ValueError: pullback")

\* lines 466-492: BUY with a live quote
BuyEntry(entry_price, ltp) ==
    IF ltp < entry_price THEN
        Decision("SL", entry_price + min_entry_tolerance,
                 entry_price + max_entry_tolerance)
    ELSE IF entry_price + min_entry_tolerance <= ltp
            /\ ltp <= entry_price + max_entry_tolerance THEN
        Decision("LIMIT", 0, ltp + LimitFillBuffer)
    ELSE IF ltp < entry_price + min_entry_tolerance THEN
        Refusal("ValueError: waiting")
    ELSE
        Refusal("ValueError: pullback")

\* lines 494-514: SELL with a live quote.  Both comparisons that follow
\* the first one, and both order prices, use the name entry_tolerance,
\* which is bound nowhere: whichever way the first test goes, the next
\* thing evaluated is entry_tolerance and a NameError is raised.
SellEntry(entry_price, ltp) ==
    IF ltp > entry_price THEN
        Refusal("NameError: entry_tolerance")
    ELSE
        Refusal("NameError: entry_tolerance")

\* FallbackEntry with the plain limit placed at the entry itself
FallbackEntryNoBuffer(entry_price, condition) ==
    IF condition = "above" THEN
        Decision("SL", entry_price + min_entry_buffer, entry_price + max_entry_buffer)
    ELSE IF condition = "below" THEN
        Decision("SL", entry_price - min_entry_buffer, entry_price - max_entry_buffer)
    ELSE
        Decision("LIMIT", 0, entry_price)

\* lines 516-537: no live quote, decide by the condition keyword
FallbackEntry(entry_price, condition) ==
    IF condition = "above" THEN
        Decision("SL", entry_price + min_entry_buffer, entry_price + max_entry_buffer)
    ELSE IF condition = "below" THEN
        Decision("SL", entry_price - min_entry_buffer, entry_price - max_entry_buffer)
    ELSE
        Decision("LIMIT", 0, entry_price + min_entry_buffer)

\* the entry decision of lines 449-537 for a signal that has a price
EntryDecision(action, entry_price, condition, ltp) ==
    IF ltp > 0 THEN
        IF action = "BUY" THEN BuyEntry(entry_price, ltp)
        ELSE IF action = "SELL" THEN SellEntry(entry_price, ltp)
        ELSE Decision("LIMIT", 0, entry_price)
    ELSE FallbackEntry(entry_price, condition)

\* float(strike) of lines 579-582 succeeds
IsNumber(strike) == strike \in {"22000", "2450", "2400", "2380", "2200", "240", "150", "120", "15"}

\* _convert_signal_to_order: [raised, error, order].  An option_type that is
\* None has no upper() (line 375).  For a strike that is
\* no number _resolve_option_symbol returns a bare None (line 582) and the
\* unpacking of its result into two names (line 396) raises TypeError.
_convert_signal_to_order(sig, resolved, quote) ==
    LET action == Upper(IF sig.action = "" THEN "BUY" ELSE sig.action)
        symbol == Upper(sig.symbol)
        isOption == Given(sig.strike) /\ Upper(sig.option_type) # ""
        exchange == IF isOption THEN OptionExchange(symbol) ELSE CashExchange(symbol)
        osymbol == IF isOption /\ resolved.found THEN resolved.symbol ELSE symbol
        quantity == IF isOption /\ resolved.found /\ resolved.lotsize # 0
                    THEN resolved.lotsize ELSE 1
        base == [symbol |-> osymbol, exchange |-> exchange, action |-> action,
                 quantity |-> quantity, price |-> 0, pricetype |-> "MARKET",
                 trigger_price |-> 0, product |-> "MIS", targets |-> sig.targets]
    IN IF sig.option_type = PyNone THEN
           [raised |-> TRUE, error |-> "'NoneType' object has no attribute 'upper'",
            order |-> NoOrder]
       ELSE IF isOption /\ ~IsNumber(sig.strike) THEN
           [raised |-> TRUE, error |-> "cannot unpack non-iterable NoneType object",
            order |-> NoOrder]
       ELSE IF sig.price # 0 THEN
           LET d == EntryDecision(action, sig.price, Lower(sig.condition),
                                  current_ltp(quote))
           IN IF d.raised
              THEN [raised |-> TRUE, error |-> d.error, order |-> NoOrder]
              ELSE [raised |-> FALSE, error |-> "",
                    order |-> [base EXCEPT !.price = d.price,
                                           !.pricetype = d.pricetype,
                                           !.trigger_price = d.trigger]]
       ELSE [raised |-> FALSE, error |-> "", order |-> base]

(* -------------------------- position monitor -------------------------- *)
RECURSIVE SeqMax(_)
SeqMax(q) ==
    IF Len(q) = 1 THEN q[1]
    ELSE LET m == SeqMax(Tail(q)) IN IF q[1] >= m THEN q[1] ELSE m

\* a position dict that starts out active with its stop loss not yet set
NewPositionActive(order_id, symbol, exchange, action, quantity, entry_price, stop_loss, targets, signal_data, product) ==
    [order_id |-> order_id, symbol |-> symbol, exchange |-> exchange,
     action |-> action, quantity |-> quantity, entry_price |-> entry_price,
     original_sl |-> stop_loss, current_sl |-> 0, targets |-> targets,
     final_target |-> IF targets = << >> THEN 0 ELSE SeqMax(targets),
     highest_price |-> entry_price, status |-> "active",
     signal_data |-> signal_data, trailing_enabled |-> TRUE, sl_order_id |-> 0,
     product |-> product, original_quantity |-> quantity,
     remaining_quantity |-> quantity, t1_hit |-> FALSE, t2_hit |-> FALSE,
     t3_hit |-> FALSE, t1_exit_done |-> FALSE, username |-> "aravind",
     t3_plus_10_start_time |-> 0]

\* the position dict built by PositionMonitor.add_position
NewPosition(order_id, symbol, exchange, action, quantity, entry_price, stop_loss, targets, signal_data, product) ==
    [order_id |-> order_id, symbol |-> symbol, exchange |-> exchange,
     action |-> action, quantity |-> quantity, entry_price |-> entry_price,
     original_sl |-> stop_loss, current_sl |-> stop_loss, targets |-> targets,
     final_target |-> IF targets = << >> THEN 0 ELSE SeqMax(targets),
     highest_price |-> entry_price, status |-> "pending_open",
     signal_data |-> signal_data, trailing_enabled |-> TRUE, sl_order_id |-> 0,
     product |-> product, original_quantity |-> quantity,
     remaining_quantity |-> quantity, t1_hit |-> FALSE, t2_hit |-> FALSE,
     t3_hit |-> FALSE, t1_exit_done |-> FALSE, username |-> "aravind",
     t3_plus_10_start_time |-> 0]

\* add_position: self.active_positions[order_id] = position
add_position(active, pos) ==
    [id \in DOMAIN active \cup {pos.order_id} |->
        IF id = pos.order_id THEN pos ELSE active[id]]

\* the history keeps the last HistoryLimit closed positions (line 492)
HistoryLimit == 100

\* what the settings and the paper-trading database answer to a persisting
\* mutator: paper-trading mode off, the write commits, the query raises,
\* the commit raises
DbAnswers == {"off", "ok", "read_error", "commit_error"}

\* the ledger row of (username, symbol) with quantity != 0, if there is
\* one, and the keys of its signal_data blob
\* A ledger row: its key, its signed quantity (0: closed), its average
\* price, the day it was created relative to the last startup, its
\* signal_data blob, and the protective (SL / SL-M) exit orders recorded for
\* it: the open one (order id and trigger, 0: none) and the trigger of the
\* most recent one of any status (0: none).
Row(id, quantity, created, sig, live_order, live_trigger, hist_trigger) ==
    [id |-> id, quantity |-> quantity, average_price |-> 10000,
     created |-> created, sig |-> sig, live_order |-> live_order,
     live_trigger |-> live_trigger, hist_trigger |-> hist_trigger,
     updated |-> ""]

EmptyBlob == [k \in {} |-> 0]

RowId(symbol) == IF symbol = "NIFTY" THEN 1 ELSE 2

NoRow == Row(0, 0, "", EmptyBlob, 0, 0, 0)
OpenRow == Row(1, 50, "today", EmptyBlob, 0, 0, 0)

\* sig_data[key] = value
Put(d, key, value) ==
    [k \in DOMAIN d \cup {key} |-> IF k = key THEN value ELSE d[k]]

\* the try block shared by the persisting mutators (lines 251-274,
\* 288-311, 325-348, 412-434, 446-468): in paper-trading mode the open
\* row of (username, symbol) gets signal_data[key] = value; any exception
\* is logged and the ledger keeps its committed content
Persist(ledger, symbol, db, key, value) ==
    IF db = "ok" /\ ledger[symbol].quantity # 0
    THEN [ledger EXCEPT ![symbol].sig = Put(@, key, value)]
    ELSE ledger

\* position[field] = value on the position of order_id
SetField(active, order_id, field, value) ==
    [active EXCEPT ![order_id] = [@ EXCEPT ![field] = value]]

\* result of a mutator: the return value and the state afterwards
Mutated(ret, active, ledger) ==
    [ret |-> ret, active |-> active, ledger |-> ledger]

\* update_sl that undoes the in-memory change when the ledger fails
UpdateSlRollingBack(active, ledger, order_id, new_sl, sl_order_id, db) ==
    IF order_id \in DOMAIN active
    THEN LET a1 == SetField(active, order_id, "current_sl", new_sl)
             a2 == IF sl_order_id # 0
                   THEN SetField(a1, order_id, "sl_order_id", sl_order_id)
                   ELSE a1
         IN IF db \in {"read_error", "commit_error"}
            THEN Mutated("False", active, ledger)
            ELSE Mutated("True", a2,
                         Persist(ledger, active[order_id].symbol, db, "stop_loss", new_sl))
    ELSE Mutated("False", active, ledger)

\* lines 240-278
update_sl(active, ledger, order_id, new_sl, sl_order_id, db) ==
    IF order_id \in DOMAIN active
    THEN LET a1 == SetField(active, order_id, "current_sl", new_sl)
             a2 == IF sl_order_id # 0
                   THEN SetField(a1, order_id, "sl_order_id", sl_order_id)
                   ELSE a1
         IN Mutated("True", a2,
                    Persist(ledger, active[order_id].symbol, db, "stop_loss", new_sl))
    ELSE Mutated("False", active, ledger)

\* lines 280-315
update_target(active, ledger, order_id, new_target, db) ==
    IF order_id \in DOMAIN active
    THEN Mutated("True", SetField(active, order_id, "final_target", new_target),
                 Persist(ledger, active[order_id].symbol, db, "target", new_target))
    ELSE Mutated("False", active, ledger)

\* lines 317-352
update_targets(active, ledger, order_id, targets, db) ==
    IF order_id \in DOMAIN active
    THEN Mutated("True", SetField(active, order_id, "targets", targets),
                 Persist(ledger, active[order_id].symbol, db, "targets", targets))
    ELSE Mutated("False", active, ledger)

\* lines 354-360
update_t3_timer(active, ledger, order_id, start_time) ==
    IF order_id \in DOMAIN active
    THEN Mutated("True", SetField(active, order_id, "t3_plus_10_start_time", start_time), ledger)
    ELSE Mutated("False", active, ledger)

\* lines 362-368
update_status(active, ledger, order_id, new_status) ==
    IF order_id \in DOMAIN active
    THEN Mutated("True", SetField(active, order_id, "status", new_status), ledger)
    ELSE Mutated("False", active, ledger)

\* update_sl_order_id that reports success without looking the id up
UpdateSlOrderIdUnchecked(active, ledger, order_id, sl_order_id) ==
    IF order_id \in DOMAIN active
    THEN Mutated("True", SetField(active, order_id, "sl_order_id", sl_order_id), ledger)
    ELSE Mutated("True", active, ledger)

\* lines 370-376
update_sl_order_id(active, ledger, order_id, sl_order_id) ==
    IF order_id \in DOMAIN active
    THEN Mutated("True", SetField(active, order_id, "sl_order_id", sl_order_id), ledger)
    ELSE Mutated("False", active, ledger)

\* update_highest_price that records every price it is given
UpdateHighestPriceAlways(active, ledger, order_id, current_price) ==
    IF order_id \in DOMAIN active
    THEN Mutated("True", SetField(active, order_id, "highest_price", current_price), ledger)
    ELSE Mutated("False", active, ledger)

\* lines 378-386: True is returned only from inside the comparison
update_highest_price(active, ledger, order_id, current_price) ==
    IF order_id \in DOMAIN active /\ current_price > active[order_id].highest_price
    THEN Mutated("True", SetField(active, order_id, "highest_price", current_price), ledger)
    ELSE Mutated("False", active, ledger)

\* lines 388-394
update_quantity(active, ledger, order_id, new_quantity) ==
    IF order_id \in DOMAIN active
    THEN Mutated("True", SetField(active, order_id, "quantity", new_quantity), ledger)
    ELSE Mutated("False", active, ledger)

\* lines 396-402
mark_t1_exit_done(active, ledger, order_id) ==
    IF order_id \in DOMAIN active
    THEN Mutated("True", SetField(active, order_id, "t1_exit_done", TRUE), ledger)
    ELSE Mutated("False", active, ledger)

\* lines 404-437
update_remaining_quantity(active, ledger, order_id, new_quantity, db) ==
    IF order_id \in DOMAIN active
    THEN Mutated("True", SetField(active, order_id, "remaining_quantity", new_quantity),
                 Persist(ledger, active[order_id].symbol, db, "remaining_quantity", new_quantity))
    ELSE Mutated("False", active, ledger)

\* set_target_hit_flag that takes the first target as hit whatever flag is named
SetTargetHitFlagFirst(active, ledger, order_id, flag_name, value, db) ==
    IF order_id \in DOMAIN active
    THEN Mutated("True", SetField(active, order_id, "t1_hit", value),
                 Persist(ledger, active[order_id].symbol, db, flag_name, value))
    ELSE Mutated("False", active, ledger)

\* lines 439-471
set_target_hit_flag(active, ledger, order_id, flag_name, value, db) ==
    IF order_id \in DOMAIN active
    THEN Mutated("True", SetField(active, order_id, flag_name, value),
                 Persist(ledger, active[order_id].symbol, db, flag_name, value))
    ELSE Mutated("False", active, ledger)

\* lines 499-505
disable_trailing(active, ledger, order_id) ==
    IF order_id \in DOMAIN active
    THEN Mutated("True", SetField(active, order_id, "trailing_enabled", FALSE), ledger)
    ELSE Mutated("False", active, ledger)

\* lines 507-513
enable_trailing(active, ledger, order_id) ==
    IF order_id \in DOMAIN active
    THEN Mutated("True", SetField(active, order_id, "trailing_enabled", TRUE), ledger)
    ELSE Mutated("False", active, ledger)

\* lines 484-486: the popped position with its closure stamped
Closed(pos, reason, t) ==
    [k \in DOMAIN pos \cup {"closed_at"} |->
        IF k = "closed_at" THEN t ELSE IF k = "status" THEN reason ELSE pos[k]]

\* remove_position that leaves the position in the active map
RemovePositionKeeping(active, history, order_id, reason, t) ==
    IF order_id \in DOMAIN active
    THEN LET h == Append(history, Closed(active[order_id], reason, t))
         IN [ret |-> "position", active |-> active,
             history |-> IF Len(h) > HistoryLimit THEN Tail(h) ELSE h]
    ELSE [ret |-> "None", active |-> active, history |-> history]

\* remove_position that evicts the newest entry when the history is full
RemovePositionEvictingNewest(active, history, order_id, reason, t) ==
    IF order_id \in DOMAIN active
    THEN LET h == Append(history, Closed(active[order_id], reason, t))
         IN [ret |-> "position",
             active |-> [id \in DOMAIN active \ {order_id} |-> active[id]],
             history |-> IF Len(h) > HistoryLimit THEN history ELSE h]
    ELSE [ret |-> "None", active |-> active, history |-> history]

\* lines 481-497
remove_position(active, history, order_id, reason, t) ==
    IF order_id \in DOMAIN active
    THEN LET h == Append(history, Closed(active[order_id], reason, t))
         IN [ret |-> "position",
             active |-> [id \in DOMAIN active \ {order_id} |-> active[id]],
             history |-> IF Len(h) > HistoryLimit THEN Tail(h) ELSE h]
    ELSE [ret |-> "None", active |-> active, history |-> history]

(* --------------------------- execute_signal --------------------------- *)
\* lines 152-155: BUY is inferred for an option leg without an action
InferAction(sig) ==
    IF sig.action = "" /\ sig.option_type \in {"CE", "PE"}
    THEN [sig EXCEPT !.action = "BUY"] ELSE sig

\* the values, in thousandths, half way between two one-decimal numbers
\* whose double lies above the half: 100.5 - 10.05 is the double
\* 90.45000000000000284 and rounds to 90.5, 100.5 + 10.05 is the double
\* 110.54999999999999716 and rounds to 110.5
HalvesRoundedUp == {90450}

\* round(x, 1) of a value given in thousandths, result in hundredths; a
\* value half way goes where its double lies
Round1(thousandths) ==
    LET q == thousandths \div 100
        r == thousandths % 100
    IN IF r > 50 \/ (r = 50 /\ thousandths \in HalvesRoundedUp)
       THEN (q + 1) * 10 ELSE q * 10

\* the stop loss put 10% below the entry whatever the action
AutoSLBelowEntry(sig) ==
    IF sig.sl = 0 /\ sig.price # 0
    THEN [sig EXCEPT !.sl = Round1(sig.price * 10 - sig.price)]
    ELSE sig

\* lines 157-175: stop loss 10% away from the entry when none is given
AutoSL(sig) ==
    IF sig.sl = 0 /\ sig.price # 0
    THEN LET action == Upper(IF sig.action = "" THEN "BUY" ELSE sig.action)
             calc == IF action = "BUY" THEN sig.price * 10 - sig.price
                                       ELSE sig.price * 10 + sig.price
         IN [sig EXCEPT !.sl = Round1(calc)]
    ELSE sig

\* the target list handed to the monitor as the signal gives it
RegisteredTargetsAsGiven(sig) ==
    IF sig.targets # << >> THEN sig.targets
    ELSE IF sig.tgt # 0 THEN << sig.tgt >> ELSE << >>

\* lines 261-281: the target list handed to the monitor
RegisteredTargets(sig) ==
    LET targets == IF sig.targets # << >> THEN sig.targets
                   ELSE IF sig.tgt # 0 THEN << sig.tgt >> ELSE << >>
    IN IF Len(targets) = 1
       THEN << targets[1], targets[1] + T2Offset, targets[1] + T3Offset >>
       ELSE targets

\* dict.get(key, default) on a dict modelled as a record
DictGet(d, key, default) ==
    IF key \in DOMAIN d THEN d[key] ELSE default

\* lines 290-309: is the placed order known to be filled?  The order dict
\* carries its type under 'pricetype'; the lookup of 'price_type' finds
\* nothing and yields its default 'LIMIT'.
should_add_to_monitor(order, status) ==
    LET price_type == Upper(DictGet(order, "price_type", "LIMIT"))
    IN IF price_type = "MARKET" THEN TRUE ELSE status = "complete"

\* the outer handler without the failure count
OnExceptionUncounted(out, stage, error) ==
    [out EXCEPT !.msg = "Exception", !.error = error, !.raised = stage]

\* lines 352-355: the outer handler of an exception raised at `stage`
OnException(out, stage, error) ==
    [out EXCEPT !.msg = "Exception", !.error = error, !.raised = stage,
                !.stats = [out.stats EXCEPT !.failed = @ + 1]]

\* a failed placement that is tried a second time
OnOrderFailedRetried(out) ==
    [out EXCEPT !.msg = "Order failed", !.error = "broker message",
                !.placed = @ + 1,
                !.stats = [out.stats EXCEPT !.failed = @ + 1]]

\* a failed placement that is not counted
OnOrderFailedUncounted(out) ==
    [out EXCEPT !.msg = "Order failed", !.error = "broker message"]

\* lines 346-350: order placement reported failure
OnOrderFailed(out) ==
    [out EXCEPT !.msg = "Order failed", !.error = "broker message",
                !.stats = [out.stats EXCEPT !.failed = @ + 1]]

\* lines 252-345: order placement reported success
OnOrderPlaced(out, oid, sig, order, status) ==
    LET reg == should_add_to_monitor(order, status)
        pos == NewPosition(oid, order.symbol, order.exchange,
                           IF sig.action = "" THEN "BUY" ELSE sig.action,
                           order.quantity, sig.price, sig.sl,
                           RegisteredTargets(sig), sig, order.product)
    IN [out EXCEPT !.ret = TRUE, !.msg = "Order placed",
                   !.stats = [out.stats EXCEPT !.executed = @ + 1],
                   !.order_id = oid, !.registered = reg,
                   !.active = IF reg THEN add_position(out.active, pos)
                              ELSE out.active]

\* lines 201-250: conversion, auth lookup, lots multiplier, order placement
PlaceSignalOrder(out, oid, sig, env) ==
    LET conv == _convert_signal_to_order(sig, env.resolved, env.quote)
        order == [conv.order EXCEPT !.quantity =
                     IF env.lots > 1 THEN @ * env.lots ELSE @]
        called == [out EXCEPT !.placed = @ + 1, !.order = order]
    IN IF conv.raised THEN OnException(out, "convert", conv.error)
       ELSE IF env.auth = "raise" THEN OnException(out, "auth", "auth lookup")
       ELSE IF env.auth = "none" THEN [out EXCEPT !.msg = "No active broker session"]
       ELSE IF env.place = "raise" THEN OnException(called, "place", "place_order")
       ELSE IF env.place = "fail" THEN OnOrderFailed(called)
       ELSE OnOrderPlaced(called, oid, sig, order, env.status)

\* execute_signal with the duplicate gate in front of the two other gates
ExecuteSignalDuplicateGateFirst(en, recent, st, active, t, oid, signal_data, channel, confidence, env) ==
    LET st0 == [st EXCEPT !.total_signals = @ + 1]
        sig == AutoSL(InferAction(signal_data))
        d == _is_duplicate(recent, channel, sig, t)
        v == _validate_signal(sig)
        out == [ret |-> FALSE, msg |-> "", error |-> "", raised |-> "",
                stats |-> st0, recent |-> d.recent, active |-> active,
                placed |-> 0, order |-> NoOrder, order_id |-> 0,
                registered |-> FALSE, signal_data |-> sig]
    IN IF d.dup THEN
           [out EXCEPT !.msg = "Duplicate signal",
                       !.stats = [st0 EXCEPT !.skipped_duplicate = @ + 1]]
       ELSE IF ~en THEN
           [out EXCEPT !.msg = "Auto-execution disabled",
                       !.stats = [st0 EXCEPT !.skipped_disabled = @ + 1]]
       ELSE IF confidence < confidence_threshold THEN
           [out EXCEPT !.msg = "Low confidence",
                       !.stats = [st0 EXCEPT !.skipped_low_confidence = @ + 1]]
       ELSE IF ~v.ok THEN
           [out EXCEPT !.msg = "Invalid", !.error = v.error,
                       !.stats = [st0 EXCEPT !.failed = @ + 1]]
       ELSE PlaceSignalOrder(out, oid, sig, env)

\* The whole of execute_signal as a function of the service state and of
\* what the collaborators answer (env).  Result: the return value, the
\* service state afterwards and what was done on the way.
execute_signal(en, recent, st, active, t, oid, signal_data, channel, confidence, env) ==
    LET st0 == [st EXCEPT !.total_signals = @ + 1]
        sig == AutoSL(InferAction(signal_data))
        out == [ret |-> FALSE, msg |-> "", error |-> "", raised |-> "",
                stats |-> st0, recent |-> recent, active |-> active,
                placed |-> 0, order |-> NoOrder, order_id |-> 0,
                registered |-> FALSE, signal_data |-> sig]
    IN IF ~en THEN
           [out EXCEPT !.msg = "Auto-execution disabled",
                       !.stats = [st0 EXCEPT !.skipped_disabled = @ + 1]]
       ELSE IF confidence < confidence_threshold THEN
           [out EXCEPT !.msg = "Low confidence",
                       !.stats = [st0 EXCEPT !.skipped_low_confidence = @ + 1]]
       ELSE
       LET d == _is_duplicate(recent, channel, sig, t)
           v == _validate_signal(sig)
           passed == [out EXCEPT !.recent = d.recent]
       IN IF d.dup THEN
              [passed EXCEPT !.msg = "Duplicate signal",
                             !.stats = [st0 EXCEPT !.skipped_duplicate = @ + 1]]
          ELSE IF ~v.ok THEN
              [passed EXCEPT !.msg = "Invalid", !.error = v.error,
                             !.stats = [st0 EXCEPT !.failed = @ + 1]]
          ELSE PlaceSignalOrder(passed, oid, sig, env)

(* ------------------------- restore at startup ------------------------- *)
\* fake_order_id = f"SANDBOX_{pos.id}" (line 66): an id no broker hands out
SandboxId(row_id) == 1000 + row_id

\* lines 69-72: the stop loss embedded in the signal data
EmbeddedSl(sig) ==
    IF DictGet(sig, "sl", 0) # 0 THEN sig.sl ELSE DictGet(sig, "stop_loss", 0)

\* lines 68-118: the stop loss of a restored position.  The embedded value
\* is read first and then overwritten by the trigger of the most recent
\* protective order (only looked for when no open one exists) and by the
\* trigger of the open protective order; 10% of the entry is the last resort.
RestoredSl(row) ==
    LET embedded == EmbeddedSl(row.sig)
        historical == IF row.live_order = 0 /\ row.hist_trigger # 0
                      THEN row.hist_trigger ELSE embedded
        live == IF row.live_order # 0 /\ row.live_trigger # 0
                THEN row.live_trigger ELSE historical
    IN IF live = 0 /\ row.average_price # 0
       THEN IF row.quantity > 0 THEN (row.average_price * 9) \div 10
                                ELSE (row.average_price * 11) \div 10
       ELSE live

\* [float(t) for t in targets if t]
RECURSIVE Truthy(_)
Truthy(q) ==
    IF q = << >> THEN << >>
    ELSE IF Head(q) # 0 THEN << Head(q) >> \o Truthy(Tail(q)) ELSE Truthy(Tail(q))

\* lines 120-132: the targets of a restored position
RestoredTargets(sig) ==
    LET listed == DictGet(sig, "targets", << >>)
        single == IF DictGet(sig, "target", 0) # 0 THEN sig.target
                  ELSE DictGet(sig, "tgt", 0)
    IN Truthy(IF listed # << >> THEN listed
              ELSE IF single # 0 THEN << single >> ELSE << >>)

\* lines 134-153: the dict a ledger row is restored to
RestoredPosition(symbol, row) ==
    LET targets == RestoredTargets(row.sig)
        sl == RestoredSl(row)
    IN [order_id |-> SandboxId(row.id), symbol |-> symbol, exchange |-> "NFO",
        action |-> IF row.quantity > 0 THEN "BUY" ELSE "SELL",
        quantity |-> IF row.quantity < 0 THEN -row.quantity ELSE row.quantity,
        entry_price |-> row.average_price, current_sl |-> sl, original_sl |-> sl,
        final_target |-> IF targets = << >> THEN 0 ELSE targets[Len(targets)],
        targets |-> targets, signal_data |-> row.sig, username |-> "aravind",
        product |-> "MIS",
        sl_order_id |-> IF row.live_order # 0 /\ row.live_trigger # 0
                        THEN row.live_order ELSE 0,
        trailing_enabled |-> TRUE, highest_price |-> row.average_price,
        t1_exit_done |-> FALSE]

\* lines 52-59: a row of a previous calendar day
Stale(row) == row.created = "earlier"

\* restore_from_sandbox that restores the rows of previous days too
RestoreIgnoringDate(ledger, analyze_mode, db) ==
    IF ~analyze_mode \/ db # "ok"
    THEN [active |-> [k \in {} |-> 0], ledger |-> ledger]
    ELSE LET kept == {sy \in DOMAIN ledger : ledger[sy].quantity # 0}
         IN [active |-> [oid \in {SandboxId(ledger[sy].id) : sy \in kept} |->
                           LET sy == CHOOSE x \in kept : SandboxId(ledger[x].id) = oid
                           IN RestoredPosition(sy, ledger[sy])],
             ledger |-> ledger]

\* lines 31-167: the active map after the startup restore and the ledger it
\* leaves behind.  Outside paper-trading mode, and when the settings or the
\* first query raise, nothing is restored and nothing is written.
restore_from_sandbox(ledger, analyze_mode, db) ==
    IF ~analyze_mode \/ db # "ok"
    THEN [active |-> [k \in {} |-> 0], ledger |-> ledger]
    ELSE LET open == {sy \in DOMAIN ledger : ledger[sy].quantity # 0}
             kept == {sy \in open : ~Stale(ledger[sy])}
         IN [active |-> [oid \in {SandboxId(ledger[sy].id) : sy \in kept} |->
                           LET sy == CHOOSE x \in kept : SandboxId(ledger[x].id) = oid
                           IN RestoredPosition(sy, ledger[sy])],
             ledger |-> [sy \in DOMAIN ledger |->
                           IF sy \in open /\ Stale(ledger[sy])
                           THEN [ledger[sy] EXCEPT !.quantity = 0, !.updated = "startup"]
                           ELSE ledger[sy]]]

(* ------------------ symbol lookup: _resolve_option_symbol -------------- *)
\* A date is the integer yyyymmdd, an expiry string "DD-MMM-YY" or
\* "DD-MMM-YYYY" is the record of its three parts, all of them empty for no
\* string at all.
Months == << "JAN", "FEB", "MAR" >>
MonthNo(mon) == CHOOSE i \in 1..Len(Months) : Months[i] = mon

\* the day of the month strptime's %d reads from one or two digits
DayNo(dd) ==
    CASE dd \in {"5", "05"} -> 5
      [] dd = "26" -> 26
      [] dd = "29" -> 29

\* the year strptime reads: %Y takes four digits only, %y two digits only
YearNo(yy) == IF yy = "2026" \/ yy = "26" THEN 2026 ELSE 2027

ExpiryString(dd, mon, yy) == [dd |-> dd, mon |-> mon, yy |-> yy]
NoExpiry == [dd |-> "", mon |-> "", yy |-> ""]
MaxDate == 99991231

\* parse_expiry (lines 624-633); the two formats fail on no string the
\* rows of the table hold
parse_expiry(token) ==
    IF token.expiry = NoExpiry THEN MaxDate
    ELSE YearNo(token.expiry.yy) * 10000 + MonthNo(token.expiry.mon) * 100 + DayNo(token.expiry.dd)

\* An expiry tag as the classifier writes it: the digits of the day as they
\* stood in the text, then the month; day "" is a month-only tag.
ExpiryTag(day, mon) == [day |-> day, mon |-> mon]
NoTag == [day |-> "", mon |-> ""]

\* matches_expiry_tag (lines 642-662): a month-only tag is looked up between
\* the dashes of the expiry string, any other tag is compared as a string
\* with the first two parts of the expiry string put together
matches_expiry_tag(token, tag) ==
    IF tag = NoTag \/ token.expiry = NoExpiry THEN TRUE
    ELSE IF tag.day = "" THEN token.expiry.mon = tag.mon
    ELSE tag.day = token.expiry.dd /\ tag.mon = token.expiry.mon

\* a row of the symbol table: symbol is name, expiry, strike and suffix
\* written together
SymToken(name, expiry, strike, suffix, exchange, lotsize) ==
    [name |-> name, expiry |-> expiry, strike |-> strike, suffix |-> suffix,
     exchange |-> exchange, lotsize |-> lotsize]

\* symbol ILIKE 'base%' for the names of the table
StartsWith(name, base_symbol) ==
    \/ name = base_symbol
    \/ name = "NIFTYNXT50" /\ base_symbol = "NIFTY"

\* float(strike) of a strike that is a number
StrikeVal(strike) == IF strike = "22000" THEN 22000 ELSE 0

\* the query of lines 597-614
QueryMatches(table, base_symbol, strike_val, option_type, exchange) ==
    SelectSeq(table, LAMBDA m : /\ m.exchange = exchange
                                /\ m.strike = strike_val
                                /\ m.suffix = option_type
                                /\ StartsWith(m.name, base_symbol))

\* the head of a list after the stable sort by parse_expiry (line 635)
FirstBySort(matches) ==
    matches[CHOOSE i \in 1..Len(matches) :
               \A j \in 1..Len(matches) :
                  \/ parse_expiry(matches[i]) < parse_expiry(matches[j])
                  \/ parse_expiry(matches[i]) = parse_expiry(matches[j]) /\ i <= j]

\* what the lookup returns: a pair, or the bare None of line 582
NoToken == SymToken("", NoExpiry, 0, "", "", 0)
NonePair == [kind |-> "pair", token |-> NoToken, lotsize |-> 0]
BareNone == [kind |-> "none", token |-> NoToken, lotsize |-> 0]
Found(m) == [kind |-> "pair", token |-> m, lotsize |-> m.lotsize]

\* _resolve_option_symbol (lines 570-682) on the table and the date of today
_resolve_option_symbol(table, today, base_symbol, strike, option_type, exchange, expiry_tag) ==
    IF ~IsNumber(strike) THEN BareNone
    ELSE
    LET matches == QueryMatches(table, base_symbol, StrikeVal(strike), option_type, exchange)
        active_matches == SelectSeq(matches, LAMBDA m : parse_expiry(m) >= today)
        expiry_filtered == SelectSeq(active_matches, LAMBDA m : matches_expiry_tag(m, expiry_tag))
        chosen == IF expiry_tag # NoTag /\ Len(expiry_filtered) > 0
                  THEN expiry_filtered ELSE active_matches
    IN IF Len(matches) = 0 THEN NonePair
       ELSE IF Len(chosen) > 0 THEN Found(FirstBySort(chosen))
       ELSE NonePair

(* ------------------------- the signal classifier ---------------------- *)
\* A message text is the list of its words, in capitals and with single
\* blanks between them.  The words of the texts below are the only ones the
\* tables of this section know.
NumberWords == {"120", "150", "2380", "2400", "2450", "22000"}

\* float() of a number word
NumVal(w) ==
    CASE w = "120" -> 120 [] w = "150" -> 150 [] w = "2380" -> 2380
      [] w = "2400" -> 2400 [] w = "2450" -> 2450 [] w = "22000" -> 22000

\* the last digit of a number word
LastDigit(w) == "0"

\* \b[A-Z]{3,15}\b: a word of three to fifteen letters
LetterWords ==
    {"BUY", "SELL", "EXIT", "RELIANCE", "NIFTY", "TATASTEEL", "ENTRY", "ABOVE", "TGT",
     "WAIT", "FOR", "BREAKOUT", "WATCH", "OUT"}

\* \w+: a word of letters and digits
PlainWords == LetterWords \cup NumberWords \cup {"CE", "SL"}

Has(text, w) == \E i \in 1..Len(text) : text[i] = w
Weigh(text, w, weight) == IF Has(text, w) THEN weight ELSE 0

\* the least index with the property, 0 if there is none
First(S) == IF S = {} THEN 0 ELSE CHOOSE i \in S : \A j \in S : i <= j

\* anti_patterns (lines 146-162) that words of the texts can match
AntiPatterns(text) ==
    (IF Has(text, "?") THEN 1 ELSE 0)
    + (IF \E i \in 1..Len(text) - 1 : text[i] = "WAIT" /\ text[i + 1] = "FOR" THEN 1 ELSE 0)
    + (IF \E i \in 1..Len(text) - 1 : text[i] = "WATCH" /\ text[i + 1] \in {"FOR", "OUT"} THEN 1 ELSE 0)

\* signal_patterns (lines 126-143): whether one of them is found
PatternMatched(text) ==
    LET n == Len(text)
        Sl(i) == text[i] = "SL"
        Tgt(i) == text[i] = "TGT"
    IN \/ \E i \in 1..n - 3 : /\ text[i] \in {"BUY", "SELL"}
                              /\ text[i + 1] \in PlainWords
                              /\ text[i + 2] \in NumberWords
                              /\ text[i + 3] = "CE"
       \/ \E i, j \in 1..n : i < j /\ Sl(i) /\ Tgt(j)
       \/ \E i, j \in 1..n : i < j /\ Tgt(i) /\ Sl(j)
       \/ \E i, j \in 1..n : /\ i + 1 < j
                             /\ text[i] \in {"ENTRY", "ABOVE"}
                             /\ text[i + 1] \in NumberWords
                             /\ Sl(j)
       \/ \E i, j \in 1..n : /\ i + 2 < j
                             /\ text[i] \in PlainWords
                             /\ text[i + 1] \in NumberWords
                             /\ text[i + 2] = "CE"
                             /\ text[j] = "ABOVE"

\* the raw score of classify (lines 172-234)
Score(text) ==
    LET prices == Cardinality({i \in 1..Len(text) : text[i] \in NumberWords})
    IN - 10 * AntiPatterns(text)
       + Weigh(text, "BUY", 12) + Weigh(text, "SELL", 12) + Weigh(text, "EXIT", 8)
       + Weigh(text, "NIFTY", 8) + Weigh(text, "CE", 7)
       + Weigh(text, "SL", 8) + Weigh(text, "TGT", 8) + Weigh(text, "ENTRY", 6)
       + Weigh(text, "ABOVE", 5)
       + (IF Has(text, "SL") /\ Has(text, "TGT") THEN 12 ELSE 0)
       + Weigh(text, "WAIT", -6) + Weigh(text, "WATCH", -5) + Weigh(text, "BREAKOUT", -5)
       + Weigh(text, "?", -3)
       + (IF prices >= 3 THEN 8 ELSE IF prices >= 2 THEN 4 ELSE 0)
       + (IF PatternMatched(text) THEN 10 ELSE 0)

\* action_found (lines 181-188): the first of buy, sell, long, short in the
\* order of the dictionary
ActionFound(text) ==
    IF Has(text, "BUY") THEN "BUY" ELSE IF Has(text, "SELL") THEN "SELL" ELSE ""

\* the symbol (lines 272-318)
CommonIndices == {"NIFTY"}
SymbolPattern == {"NIFTY", "RELIANCE"}

ExtractSymbol(text, valid_symbols) ==
    LET listed == First({i \in 1..Len(text) : /\ text[i] \in LetterWords
                                              /\ text[i] \in valid_symbols \cup CommonIndices})
        symbol_match == First({i \in 1..Len(text) : text[i] \in SymbolPattern})
        generic_match == First({i \in 1..Len(text) - 2 : /\ text[i] \in LetterWords
                                                         /\ text[i + 1] \in NumberWords
                                                         /\ text[i + 2] = "CE"})
    IN IF symbol_match # 0 THEN text[symbol_match]
       ELSE IF valid_symbols # {} /\ listed # 0 THEN text[listed]
       ELSE IF generic_match # 0 THEN text[generic_match]
       ELSE ""

\* the keyword of the price pattern (line 359) a word holds, in lower case
PriceKeyword(w) ==
    CASE w = "@" -> "@"
      [] w = "ABOVE" -> "above"
      [] w = "ENTRY" -> "entry"
      [] w \in {"TATASTEEL", "WATCH"} -> "at"
      [] OTHER -> ""

ConditionWordsAndEntry == {"above", "below", "around", "near", "at", "@", "entry"}

ConditionWords == {"above", "below", "around", "near", "at", "@"}

\* the first number word after position i, 0 if there is none
NextNumber(text, i) == First({j \in i + 1..Len(text) : text[j] \in NumberWords})

\* the words that end in t, where the fallback target pattern (line 430) starts
EndsInT == {"EXIT", "TGT", "WAIT", "BREAKOUT", "OUT"}

\* the words that start like the end of the target section (line 401)
StartsLikeStop(w) == w \in {"SL", "ABOVE"}

\* the number words of text[i..j], in order
RECURSIVE NumbersBetween(_, _, _)
NumbersBetween(text, i, j) ==
    IF i > j THEN << >>
    ELSE (IF text[i] \in NumberWords THEN << text[i] >> ELSE << >>) \o NumbersBetween(text, i + 1, j)

\* the last index of the run of number words that starts at i
RECURSIVE RunEnd(_, _)
RunEnd(text, i) ==
    IF i + 1 <= Len(text) /\ text[i + 1] \in NumberWords THEN RunEnd(text, i + 1) ELSE i

\* the captures of the fallback target pattern from position i on
RECURSIVE TMatches(_, _)
TMatches(text, i) ==
    IF i >= Len(text) THEN << >>
    ELSE IF text[i] \in EndsInT /\ text[i + 1] \in NumberWords THEN
         IF i + 2 <= Len(text) /\ text[i + 2] \in NumberWords
         THEN << text[i + 2] >> \o TMatches(text, i + 3)
         ELSE << LastDigit(text[i + 1]) >> \o TMatches(text, i + 2)
    ELSE TMatches(text, i + 1)

\* float() of a capture
CaptureVal(t) == IF t \in NumberWords THEN NumVal(t) ELSE 0

\* the captures that are kept (lines 413-424, 435-444)
RECURSIVE KeepTargets(_, _, _)
KeepTargets(ts, price_val, sl_val) ==
    IF ts = << >> THEN << >>
    ELSE (IF /\ CaptureVal(Head(ts)) # price_val
             /\ CaptureVal(Head(ts)) # sl_val
             /\ CaptureVal(Head(ts)) > 5
          THEN << Head(ts) >> ELSE << >>) \o KeepTargets(Tail(ts), price_val, sl_val)

\* list(dict.fromkeys(targets)) (line 447)
RECURSIVE Distinct(_)
Distinct(ts) ==
    IF ts = << >> THEN << >>
    ELSE LET front == Distinct(SubSeq(ts, 1, Len(ts) - 1))
             last == ts[Len(ts)]
         IN IF \E i \in 1..Len(front) : front[i] = last THEN front ELSE Append(front, last)

\* str() of the float of a number word
FloatStr(w) == w \o ".0"

RECURSIVE MaxWord(_)
MaxWord(ts) ==
    IF Len(ts) = 1 THEN ts[1]
    ELSE LET m == MaxWord(Tail(ts)) IN IF NumVal(ts[1]) >= NumVal(m) THEN ts[1] ELSE m

RECURSIVE MinWord(_)
MinWord(ts) ==
    IF Len(ts) = 1 THEN ts[1]
    ELSE LET m == MinWord(Tail(ts)) IN IF NumVal(ts[1]) <= NumVal(m) THEN ts[1] ELSE m

\* The dictionary _extract_signal_data returns (lines 264-462); a key that
\* is not set holds "", the targets << >>.  The texts hold no name of a
\* month, so the key expiry is never set.
_extract_signal_data(text, action, valid_symbols) ==
    LET n == Len(text)
        symbol == ExtractSymbol(text, valid_symbols)
        strike_match == First({i \in 1..n : text[i] \in NumberWords})
        strike == IF strike_match # 0 THEN text[strike_match] ELSE ""
        option_type == IF Has(text, "CE") THEN "CE" ELSE ""
        match == First({i \in 1..n : PriceKeyword(text[i]) # "" /\ NextNumber(text, i) # 0})
        condition_word == IF match # 0 THEN PriceKeyword(text[match]) ELSE ""
        fallback == First({i \in 1..n : /\ text[i] \in NumberWords
                                        /\ ~(strike # "" /\ NumVal(text[i]) = NumVal(strike))})
        price == IF match # 0 THEN text[NextNumber(text, match)]
                 ELSE IF fallback # 0 THEN text[fallback]
                 ELSE ""
        condition == IF condition_word \in ConditionWords THEN condition_word ELSE ""
        sl_match == First({i \in 1..n - 1 : text[i] = "SL" /\ text[i + 1] \in NumberWords})
        sl == IF sl_match # 0 THEN text[sl_match + 1] ELSE ""
        price_val == IF price # "" THEN NumVal(price) ELSE 0
        sl_val == IF sl # "" THEN NumVal(sl) ELSE 0
        section == First({i \in 1..n - 1 :
                             /\ text[i] = "TGT"
                             /\ text[i + 1] \in NumberWords
                             /\ \/ RunEnd(text, i + 1) = n
                                \/ StartsLikeStop(text[RunEnd(text, i + 1) + 1])})
        from_section == IF section = 0 THEN << >>
                        ELSE KeepTargets(NumbersBetween(text, section + 1, RunEnd(text, section + 1)),
                                         price_val, sl_val)
        targets == Distinct(IF from_section # << >> THEN from_section
                            ELSE KeepTargets(TMatches(text, 1), price_val, sl_val))
        tgt == IF targets = << >> THEN ""
               ELSE IF action = "SELL" THEN FloatStr(MinWord(targets))
               ELSE FloatStr(MaxWord(targets))
    IN [action |-> action, symbol |-> symbol, strike |-> strike, option_type |-> option_type,
        expiry |-> "", price |-> price, condition |-> condition, sl |-> sl, stop_loss |-> sl,
        targets |-> targets, tgt |-> tgt]

HasMeaningfulDataAlways(extracted) == TRUE

\* the quality check of lines 250-253
HasMeaningfulData(extracted) ==
    \/ extracted.action # ""
    \/ extracted.symbol # "" /\ (extracted.price # "" \/ extracted.sl # "" \/ extracted.tgt # "")

\* no dictionary: the None classify returns as its third value
NoExtraction == [none |-> TRUE]

\* min(1.0, max(0.0, score / 35)), in seventieths
Confidence70(score) ==
    IF score <= 0 THEN 0 ELSE IF score >= 35 THEN 70 ELSE 2 * score

\* classify (lines 164-262); the confidence is in seventieths, so that its
\* half is a whole number too
classify(text, valid_symbols) ==
    LET score == Score(text)
        confidence == Confidence70(score)
        extracted == _extract_signal_data(text, ActionFound(text), valid_symbols)
    IN IF ~(score >= 20 /\ 2 * confidence >= 70) THEN
          [is_signal |-> FALSE, confidence |-> confidence, extracted |-> NoExtraction, score |-> score, downgraded |-> FALSE]
       ELSE IF ~HasMeaningfulData(extracted) THEN
          [is_signal |-> FALSE, confidence |-> confidence \div 2, extracted |-> NoExtraction, score |-> score, downgraded |-> TRUE]
       ELSE
          [is_signal |-> TRUE, confidence |-> confidence, extracted |-> extracted, score |-> score, downgraded |-> FALSE]

(* ------------------- the listener: process_message -------------------- *)
\* a number word without its last digit
ButLast(w) ==
    CASE w = "120" -> "12" [] w = "150" -> "15" [] w = "2380" -> "238"
      [] w = "2400" -> "240" [] w = "2450" -> "245" [] w = "22000" -> "2200"

\* what the parsers hand over: the keys of both, "" for a key that is not set
Parsed(a, sy, st, ot, p, c, sl, slo, tg, t) ==
    [action |-> a, symbol |-> sy, strike |-> st, option_type |-> ot, expiry |-> "",
     price |-> p, condition |-> c, sl |-> sl, stop_loss |-> slo, targets |-> tg, tgt |-> t]

NoParsed == Parsed("", "", "", "", "", "", "", "", << >>, "")

\* The groupdict of signal_pattern (lines 24-33) matched at the action word
\* text[i], NoParsed if it does not match there.  After the symbol come an
\* optional strike, CE and @ or ABOVE, then the price, SL, a number, TGT, a
\* number.  A number that stands alone before SL is cut in two by the
\* backtracking of the pattern: its last digit becomes the price and the
\* rest the strike, or the symbol if the number is all there is.
GroupDictAt(text, i) ==
    LET n == Len(text)
        W(j) == IF j <= n THEN text[j] ELSE ""
        sy == W(i + 1)
        hasStrike == W(i + 2) \in NumberWords
        afterStrike == IF hasStrike THEN i + 3 ELSE i + 2
        hasType == W(afterStrike) = "CE"
        afterType == IF hasType THEN afterStrike + 1 ELSE afterStrike
        hasKeyword == W(afterType) \in {"@", "ABOVE"}
        afterKeyword == IF hasKeyword THEN afterType + 1 ELSE afterType
        Rest(j) == /\ W(j) = "SL" /\ W(j + 1) \in NumberWords
                   /\ W(j + 2) = "TGT" /\ W(j + 3) \in NumberWords
        Dict(symbol, strike, option_type, price, j) ==
            Parsed(text[i], symbol, strike, option_type, price, "", text[j + 1], "", << >>, text[j + 3])
    IN IF sy \notin PlainWords THEN NoParsed
       ELSE IF W(afterKeyword) \in NumberWords /\ Rest(afterKeyword + 1) THEN
            Dict(sy, IF hasStrike THEN W(i + 2) ELSE PyNone, IF hasType THEN "CE" ELSE PyNone,
                 W(afterKeyword), afterKeyword + 1)
       ELSE IF hasStrike /\ Rest(i + 3) THEN
            Dict(sy, ButLast(W(i + 2)), PyNone, LastDigit(W(i + 2)), i + 3)
       ELSE IF sy \in NumberWords /\ Rest(i + 2) THEN
            Dict(ButLast(sy), PyNone, PyNone, LastDigit(sy), i + 2)
       ELSE NoParsed

\* signal_pattern.search(text).groupdict(), NoParsed without a match
GroupDict(text) ==
    LET at == First({i \in 1..Len(text) : text[i] \in {"BUY", "SELL"} /\ GroupDictAt(text, i) # NoParsed})
    IN IF at = 0 THEN NoParsed ELSE GroupDictAt(text, at)

\* the parsing of process_message (lines 229-259): status, signal_data and
\* confidence in percent (rounded down); the classifier's dictionary if it
\* says signal, else the regex fallback with confidence 0.8
Parse(text, valid_symbols) ==
    LET c == classify(text, valid_symbols)
        g == GroupDict(text)
    IN IF c.is_signal THEN
          [status |-> "parsed", by |-> "classifier", signal_data |-> c.extracted,
           confidence |-> (c.confidence * 100) \div 70]
       ELSE IF g # NoParsed THEN
          [status |-> "parsed", by |-> "regex", signal_data |-> g, confidence |-> 80]
       ELSE
          [status |-> "raw", by |-> "", signal_data |-> NoParsed,
           confidence |-> (c.confidence * 100) \div 70]

\* float() of a field: a number word, or the str() of a float
FieldVal(s) ==
    IF s \in NumberWords THEN NumVal(s)
    ELSE NumVal(CHOOSE w \in NumberWords : FloatStr(w) = s)

\* the prices of the dictionary in hundredths, 0 for a key that is not set
Hundredths(s) == IF s = "" THEN 0 ELSE 100 * FieldVal(s)

\* The dictionary of a parser as execute_signal reads it: the keys it
\* reads, prices as numbers.
AsSignal(parsed) ==
    Signal(parsed.action, parsed.symbol, parsed.strike, parsed.option_type,
           Hundredths(parsed.price), parsed.condition, Hundredths(parsed.sl),
           [k \in 1..Len(parsed.targets) |-> Hundredths(parsed.targets[k])],
           Hundredths(parsed.tgt))

(* ------------------------------- state -------------------------------- *)
VARIABLES
    enabled,           \* SignalExecutionService.enabled
    recent_signals,    \* SignalExecutionService.recent_signals: channel -> <<hash, time>> list
    stats,             \* SignalExecutionService.stats
    active_positions,  \* PositionMonitor.active_positions: order id -> position
    now,               \* the wall clock read by datetime.now(), in seconds
    order_seq,         \* the number of order ids the broker has handed out
    call,              \* the last execute_signal call: its arguments, what it did, its result
    accepted,          \* history: <<channel, hash, time>> of the last call per channel and hash that got past the duplicate gate
    arg,               \* a call drawn in advance (used by SpecEntry only)
    tasks,             \* where each execute_signal task stands (used by SpecTasks only)
    result,            \* what the last call of a function without state returned (SpecResolve, SpecClassify)
    listener,          \* TelegramSignalListener: the dashboard buffer and the calls it made (SpecListener)
    position_history,  \* PositionMonitor.position_history: the closed positions, oldest first
    ledger,            \* the paper-trading ledger: symbol -> the open row of the user and its signal_data
    mon,               \* the last monitor call: its arguments and its result
    removed,           \* history: every position remove_position closed, in removal order
    prices_seen        \* history: order id -> the prices given to update_highest_price since the position was added

vars == << enabled, recent_signals, stats, active_positions, now, order_seq, call, accepted, arg, tasks, result, listener, position_history, ledger, mon, removed, prices_seen >>

\* what the signal execution service never touches
monitor_vars == << position_history, ledger, mon, removed, prices_seen >>

\* what the position monitor never touches
service_vars == << enabled, recent_signals, stats, order_seq, call, accepted, arg, tasks, result, listener >>

InitStats ==
    [total_signals |-> 0, executed |-> 0, skipped_low_confidence |-> 0,
     skipped_duplicate |-> 0, skipped_disabled |-> 0, failed |-> 0]

EmptyMap == [id \in {} |-> 0]

NoCall ==
    [n |-> 0, signal_data |-> NoSignal, channel |-> "", confidence |-> 0,
     ret |-> FALSE, msg |-> "", error |-> "", raised |-> "", placed |-> 0,
     place_result |-> "", order |-> NoOrder, order_id |-> 0, registered |-> FALSE,
     signal_out |-> NoSignal]

NoArg == [signal_data |-> NoSignal, env |-> NoEnv]

\* the execute_signal coroutines the listener has created
Tasks == {1, 2}
NoTasks == [t \in Tasks |-> "none"]

\* no function was called, and a listener that was never connected
NoResult == [n |-> 0]
NoListener == [n |-> 0]

MonSymbols == {"NIFTY"}

NoMonCall ==
    [n |-> 0, op |-> "", order_id |-> 0, known |-> FALSE, value |-> 0,
     db |-> "", ret |-> ""]

\* SignalExecutionService.__init__ and PositionMonitor.__init__ (nothing restored)
InitService ==
    /\ enabled \in BOOLEAN
    /\ recent_signals = [c \in Channels |-> << >>]
    /\ stats = InitStats
    /\ now = 0
    /\ order_seq = 0
    /\ call = NoCall
    /\ accepted = {}
    /\ position_history = << >>
    /\ mon = NoMonCall
    /\ removed = << >>
    /\ prices_seen = [id \in {} |-> {}]

\* paper-trading mode off: restore_from_sandbox returns at once (lines 34-35)
NothingRestored ==
    /\ active_positions = EmptyMap
    /\ ledger = [s \in MonSymbols |-> NoRow]

Init ==
    /\ InitService
    /\ NothingRestored
    /\ arg = NoArg
    /\ tasks = NoTasks
    /\ result = NoResult
    /\ listener = NoListener

(* ------------------------------ actions ------------------------------- *)
enable ==
    /\ enabled' = TRUE
    /\ UNCHANGED << recent_signals, stats, active_positions, now, order_seq, call, accepted, arg, tasks, result, listener >>
    /\ UNCHANGED monitor_vars

disable ==
    /\ enabled' = FALSE
    /\ UNCHANGED << recent_signals, stats, active_positions, now, order_seq, call, accepted, arg, tasks, result, listener >>
    /\ UNCHANGED monitor_vars

\* a second passes
Tick ==
    /\ now < MaxTime
    /\ now' = now + 1
    /\ UNCHANGED << enabled, recent_signals, stats, active_positions, order_seq, call, accepted, arg, tasks, result, listener >>
    /\ UNCHANGED monitor_vars

\* one execute_signal call, start to return
Execute(signal_data, channel, confidence, env) ==
    LET r == execute_signal(enabled, recent_signals, stats, active_positions, now,
                            order_seq + 1, signal_data, channel, confidence, env)
    IN /\ recent_signals' = r.recent
       /\ stats' = r.stats
       /\ active_positions' = r.active
       /\ order_seq' = IF r.ret THEN order_seq + 1 ELSE order_seq
       /\ call' = [n |-> call.n + 1, signal_data |-> signal_data, channel |-> channel,
                   confidence |-> confidence, ret |-> r.ret,
                   msg |-> r.msg, error |-> r.error, raised |-> r.raised,
                   placed |-> r.placed,
                   place_result |-> IF r.placed > 0 THEN env.place ELSE "",
                   order |-> r.order, order_id |-> r.order_id,
                   registered |-> r.registered, signal_out |-> r.signal_data]
       /\ accepted' =
            IF r.msg \in {"Auto-execution disabled", "Low confidence", "Duplicate signal"}
            THEN accepted
            ELSE LET h == _generate_signal_hash(r.signal_data)
                 IN {x \in accepted : ~(x[1] = channel /\ x[2] = h)}
                    \cup {<< channel, h, now >>}
       /\ UNCHANGED << enabled, now >>
       /\ UNCHANGED monitor_vars

\* the collaborators are only asked (lines 201-309) by a call that gets
\* past the four gates of lines 177-199
Asked(signal_data, channel, confidence) ==
    LET sig == AutoSL(InferAction(signal_data))
    IN /\ enabled
       /\ confidence >= confidence_threshold
       /\ ~_is_duplicate(recent_signals, channel, sig, now).dup
       /\ _validate_signal(sig).ok

ExecuteSignal ==
    /\ stats.total_signals < MaxCalls
    /\ \E signal_data \in MainSignals, channel \in Channels,
          confidence \in Confidences :
          \E env \in IF Asked(signal_data, channel, confidence)
                     THEN MainEnvs ELSE {NoEnv} :
             Execute(signal_data, channel, confidence, env)
    /\ UNCHANGED << arg, tasks, result, listener >>

Next == enable \/ disable \/ Tick \/ ExecuteSignal

Spec == Init /\ [][Next]_vars

(* ------- calls of a few payloads over time, collaborators all well ----- *)
ExecuteDup ==
    /\ stats.total_signals < MaxDupCalls
    /\ \E signal_data \in DupSignals, channel \in Channels :
          Execute(signal_data, channel, 90, NoEnv)
    /\ UNCHANGED << arg, tasks, result, listener >>

InitDup ==
    /\ Init
    /\ enabled = TRUE

NextDup == Tick \/ ExecuteDup

SpecDup == InitDup /\ [][NextDup]_vars

(* ------ one payload sent again and again on one channel, over time ----- *)
GateArgs == [signal_data : MainSignals, env : MainEnvs, channel : Channels]

InitGate ==
    /\ InitService
    /\ NothingRestored
    /\ arg \in GateArgs
    /\ tasks = NoTasks
    /\ result = NoResult
    /\ listener = NoListener

ExecuteAgain ==
    /\ stats.total_signals < MaxCalls
    /\ \E confidence \in Confidences :
          Execute(arg.signal_data, arg.channel, confidence, arg.env)
    /\ UNCHANGED << arg, tasks, result, listener >>

NextGate == enable \/ disable \/ Tick \/ ExecuteAgain

SpecGate == InitGate /\ [][NextGate]_vars

(* ---- two execute_signal tasks under the cooperative scheduler ---------- *)
\* a task the listener created by calling the coroutine with its arguments
NewTask(signal_data, channel) ==
    [pc |-> "created", signal_data |-> signal_data, channel |-> channel]

InitTasks ==
    /\ InitService
    /\ NothingRestored
    /\ arg \in {[signal_data |-> NoSignal, env |-> e] : e \in MainEnvs}
    /\ tasks \in [Tasks -> {NewTask(s, c) : s \in DupSignals, c \in Channels}]
    /\ result = NoResult
    /\ listener = NoListener

\* The scheduler resumes a task that has not run yet.  The coroutine has
\* one suspension point, the await of line 341 after a placed order, so
\* lines 150-340 run as one step; a call that returns before it is done.
TaskRuns ==
    \E t \in Tasks :
       /\ tasks[t].pc = "created"
       /\ Execute(tasks[t].signal_data, tasks[t].channel, 90, arg.env)
       /\ tasks' = [tasks EXCEPT ![t].pc = IF call'.ret THEN "alert" ELSE "done"]
       /\ UNCHANGED << arg, result, listener >>

\* the alert was sent or failed (lines 341-343) and the task returns
AlertSent ==
    /\ \E t \in Tasks :
          /\ tasks[t].pc = "alert"
          /\ tasks' = [tasks EXCEPT ![t].pc = "done"]
    /\ UNCHANGED << enabled, recent_signals, stats, active_positions, now, order_seq, call, accepted, arg, result, listener >>
    /\ UNCHANGED monitor_vars

NextTasks == Tick \/ TaskRuns \/ AlertSent

SpecTasks == InitTasks /\ [][NextTasks]_vars

(* ------------- one lookup, for every table, date and tag --------------- *)
Range(seq) == {seq[i] : i \in 1..Len(seq)}

\* the rows the table can hold, in the order the query returns them
AllTokens ==
    << SymToken("NIFTY", ExpiryString("29", "JAN", "26"), 22000, "CE", "NFO", 75),
       SymToken("NIFTY", ExpiryString("05", "FEB", "2026"), 22000, "CE", "NFO", 75),
       SymToken("NIFTY", ExpiryString("26", "FEB", "26"), 22000, "CE", "NFO", 75),
       SymToken("NIFTYNXT50", ExpiryString("26", "FEB", "26"), 22000, "CE", "NFO", 25),
       SymToken("NIFTY", ExpiryString("29", "JAN", "26"), 22000, "PE", "NFO", 75),
       SymToken("NIFTY", ExpiryString("29", "JAN", "26"), 22500, "CE", "NFO", 75),
       SymToken("NIFTY", ExpiryString("29", "JAN", "26"), 22000, "CE", "BFO", 75) >>

Tables == {SelectSeq(AllTokens, LAMBDA m : m \in rows) : rows \in SUBSET Range(AllTokens)}

Todays == {20260120, 20260129, 20260130, 20260227}

ExpiryTags ==
    {NoTag, ExpiryTag("", "FEB"), ExpiryTag("", "MAR"), ExpiryTag("29", "JAN"),
     ExpiryTag("05", "FEB"), ExpiryTag("5", "FEB")}

ResolveArgs ==
    [table : Tables, today : Todays, base_symbol : {"NIFTY"}, strike : {"22000", "ATM"},
     option_type : {"CE"}, exchange : {"NFO"}, expiry_tag : ExpiryTags]

InitResolve ==
    /\ InitService
    /\ NothingRestored
    /\ arg \in ResolveArgs
    /\ tasks = NoTasks
    /\ result = NoResult
    /\ listener = NoListener

Resolve ==
    /\ result.n = 0
    /\ result' = [n |-> 1,
                  ret |-> _resolve_option_symbol(arg.table, arg.today, arg.base_symbol, arg.strike,
                                                 arg.option_type, arg.exchange, arg.expiry_tag)]
    /\ UNCHANGED << arg, tasks, listener >>
    /\ UNCHANGED << enabled, recent_signals, stats, active_positions, now, order_seq, call, accepted >>
    /\ UNCHANGED monitor_vars

NextResolve == Resolve

SpecResolve == InitResolve /\ [][NextResolve]_vars

(* ------------------- one classification, for every text --------------- *)
Opt(w) == IF w = "" THEN << >> ELSE << w >>

\* the texts: each part is there or not
Texts ==
    {Opt(a) \o Opt(s) \o Opt(k) \o Opt(o) \o Opt(kw) \o Opt(p) \o sl \o tg \o tail :
        a \in {"", "BUY", "SELL", "EXIT"},
        s \in {"", "RELIANCE", "NIFTY", "TATASTEEL"},
        k \in {"", "22000"},
        o \in {"", "CE"},
        kw \in {"", "@", "ABOVE", "ENTRY"},
        p \in {"", "2400", "150", "22000"},
        sl \in {<< >>, << "SL", "2380" >>},
        tg \in {<< >>, << "TGT", "2450" >>, << "TGT", "2400" >>},
        tail \in {<< >>, << "?" >>, << "WAIT", "FOR", "BREAKOUT", "WATCH", "OUT", "?" >>}}

\* symbols.csv is missing, or lists a stock
ValidSymbolSets == {{}, {"TATASTEEL"}}

ClassifyArgs == [text : Texts, valid_symbols : ValidSymbolSets]

InitClassify ==
    /\ InitService
    /\ NothingRestored
    /\ arg \in ClassifyArgs
    /\ tasks = NoTasks
    /\ result = NoResult
    /\ listener = NoListener

Classify ==
    /\ result.n = 0
    /\ result' = [n |-> 1, ret |-> classify(arg.text, arg.valid_symbols)]
    /\ UNCHANGED << arg, tasks, listener >>
    /\ UNCHANGED << enabled, recent_signals, stats, active_positions, now, order_seq, call, accepted >>
    /\ UNCHANGED monitor_vars

NextClassify == Classify

SpecClassify == InitClassify /\ [][NextClassify]_vars

(* -------- the listener: the history of today, then new messages ------- *)
\* a cash signal, an option signal, a cash signal among noise that only the
\* regex fallback parses, and two texts that no parser takes for a signal
CashText == << "BUY", "RELIANCE", "@", "2400", "SL", "2380", "TGT", "2450" >>
OptionText == << "BUY", "NIFTY", "22000", "CE", "@", "150", "SL", "120", "TGT", "2450" >>
NoisyText == << "SELL", "RELIANCE", "@", "2400", "SL", "2380", "TGT", "2450", "WAIT", "FOR", "BREAKOUT", "WATCH", "OUT", "?" >>
ListenerTexts == {CashText, OptionText, NoisyText, << "EXIT", "NIFTY", "CE" >>, << "WAIT", "FOR", "BREAKOUT", "?" >>}

NoMessage == [text |-> << >>, channel |-> "", replay |-> FALSE, status |-> "", by |-> "", executed |-> FALSE]

\* initialize() has run (lines 66-67) and connect() is about to fetch the
\* history (line 108)
InitListener ==
    /\ InitService
    /\ NothingRestored
    /\ arg \in {[valid_symbols |-> v] : v \in ValidSymbolSets}
    /\ tasks = NoTasks
    /\ result = NoResult
    /\ listener = [n |-> 0, phase |-> "history", message_buffer |-> [c \in Channels |-> << >>],
                   last |-> NoMessage]

\* Parse for every text and symbol list of this specification, worked out once
ParseOf == [v \in ValidSymbolSets |-> [t \in ListenerTexts |-> Parse(t, v)]]

\* the second half of process_message that does not look at replay
ExecuteAndBufferReplays(p, text, channel_name, replay, env) ==
    LET executes == p.status = "parsed"
        data == [channel |-> channel_name, message |-> text, status |-> p.status]
        buffer == << data >> \o listener.message_buffer[channel_name]
    IN /\ IF executes
          THEN Execute(AsSignal(p.signal_data), channel_name, p.confidence, env)
          ELSE /\ UNCHANGED << enabled, recent_signals, stats, active_positions, now, order_seq, call, accepted >>
               /\ UNCHANGED monitor_vars
       /\ listener' = [listener EXCEPT
                          !.n = @ + 1,
                          !.message_buffer[channel_name] =
                              IF Len(buffer) > message_buffer_limit
                              THEN SubSeq(buffer, 1, Len(buffer) - 1) ELSE buffer,
                          !.last = [text |-> text, channel |-> channel_name, replay |-> replay,
                                    status |-> p.status, by |-> p.by, executed |-> executes]]
       /\ UNCHANGED << arg, tasks, result >>

\* The second half of process_message (lines 261-308) for the parse p of the
\* text: hand a parsed signal to execute_signal unless the message is
\* replayed, then put the message at the front of the channel's buffer,
\* which keeps 50.  The entry's copy of the parsed dictionary is left out;
\* an emit that raises (line 306) comes after the insert and changes nothing.
ExecuteAndBuffer(p, text, channel_name, replay, env) ==
    LET executes == p.status = "parsed" /\ ~replay
        data == [channel |-> channel_name, message |-> text, status |-> p.status]
        buffer == << data >> \o listener.message_buffer[channel_name]
    IN /\ IF executes
          THEN Execute(AsSignal(p.signal_data), channel_name, p.confidence, env)
          ELSE /\ UNCHANGED << enabled, recent_signals, stats, active_positions, now, order_seq, call, accepted >>
               /\ UNCHANGED monitor_vars
       /\ listener' = [listener EXCEPT
                          !.n = @ + 1,
                          !.message_buffer[channel_name] =
                              IF Len(buffer) > message_buffer_limit
                              THEN SubSeq(buffer, 1, Len(buffer) - 1) ELSE buffer,
                          !.last = [text |-> text, channel |-> channel_name, replay |-> replay,
                                    status |-> p.status, by |-> p.by, executed |-> executes]]
       /\ UNCHANGED << arg, tasks, result >>

\* process_message (lines 227-308): parse the text, then execute and buffer
process_message(text, channel_name, replay, env) ==
    ExecuteAndBuffer(ParseOf[arg.valid_symbols][text], text, channel_name, replay, env)

\* fetch_history hands over a message of today (lines 146-150)
Replay ==
    /\ listener.phase = "history"
    /\ listener.n < MaxMessages
    /\ \E text \in ListenerTexts, channel \in Channels :
          process_message(text, channel, TRUE, NoEnv)

\* the history is through and _register_handlers has run (lines 108-109)
HandlersRegistered ==
    /\ listener.phase = "history"
    /\ listener' = [listener EXCEPT !.phase = "live"]
    /\ UNCHANGED << arg, tasks, result >>
    /\ UNCHANGED << enabled, recent_signals, stats, active_positions, now, order_seq, call, accepted >>
    /\ UNCHANGED monitor_vars

\* the handler gets a new message of a configured channel (lines 197-222)
NewMessage ==
    /\ listener.phase = "live"
    /\ listener.n < MaxMessages
    /\ \E text \in ListenerTexts, channel \in Channels, env \in MainEnvs :
          process_message(text, channel, FALSE, env)

NextListener == Replay \/ HandlersRegistered \/ NewMessage

SpecListener == InitListener /\ [][NextListener]_vars

(* ---- one call on an enabled service, for every payload and answer ---- *)
EntryArgs == [signal_data : SignalSpace, env : EntryEnvs]

InitEntry ==
    /\ InitService
    /\ NothingRestored
    /\ enabled = TRUE
    /\ arg \in EntryArgs
    /\ tasks = NoTasks
    /\ result = NoResult
    /\ listener = NoListener

ExecuteArg ==
    /\ call.n = 0
    /\ Execute(arg.signal_data, "chA", 90, arg.env)
    /\ UNCHANGED << arg, tasks, result, listener >>

NextEntry == ExecuteArg

SpecEntry == InitEntry /\ [][NextEntry]_vars

(* ----- one call for payloads with and without price and stop loss ----- *)
AutoSlSignals ==
    { Signal(a, "NIFTY", k[1], k[2], p, "", sl, << 11000 >>, 0) :
        a \in {"", "BUY", "SELL", "buy", "sell"},
        k \in {<< "", "" >>, << "22000", "CE" >>},
        p \in {0, 10000, 12345, 10050}, sl \in {0, 9500} }

AutoSlArgs ==
    [signal_data : AutoSlSignals,
     env : {Env(NoQuote, r, "ok", p, "complete", 1) :
               r \in Resolutions, p \in {"success", "fail"}}]

InitAutoSl ==
    /\ InitService
    /\ NothingRestored
    /\ arg \in AutoSlArgs
    /\ tasks = NoTasks
    /\ result = NoResult
    /\ listener = NoListener

ExecuteOnce ==
    /\ call.n = 0
    /\ \E confidence \in Confidences : Execute(arg.signal_data, "chA", confidence, arg.env)
    /\ UNCHANGED << arg, tasks, result, listener >>

NextAutoSl == ExecuteOnce

SpecAutoSl == InitAutoSl /\ [][NextAutoSl]_vars

(* ------------------------- the process starts ------------------------- *)
\* the process starts: PositionMonitor() is constructed (lines 24-29)
Startup(analyze_mode, db) ==
    LET r == restore_from_sandbox(ledger, analyze_mode, db)
    IN /\ active_positions' = r.active
       /\ ledger' = r.ledger
       /\ position_history' = << >>
       /\ removed' = << >>
       /\ prices_seen' = [id \in {} |-> {}]
       /\ mon' = [n |-> mon.n + 1, op |-> "restore_from_sandbox", order_id |-> 0,
                  known |-> FALSE, value |-> analyze_mode, db |-> db, ret |-> "None"]
       /\ UNCHANGED now
       /\ UNCHANGED service_vars

\* what the ledger can hold when the process starts
RestoreSymbols == {"NIFTY", "BANKNIFTY"}

Blobs ==
    { [k \in keys |-> CASE k = "sl" -> 9200
                        [] k = "stop_loss" -> 9500
                        [] k = "targets" -> << 11200, 11000 >>
                        [] k = "tgt" -> 11000] :
        keys \in SUBSET {"sl", "stop_loss", "targets", "tgt"} }

ProtectiveOrders ==
    {<< 0, 0, 0 >>, << 0, 0, 9400 >>, << 7, 9300, 9300 >>, << 7, 9300, 9400 >>, << 7, 0, 9400 >>}

Rows(symbol) ==
    { Row(RowId(symbol), q, c, b, o[1], o[2], o[3]) :
        q \in {0, 50, -50}, c \in {"today", "earlier"},
        b \in IF symbol = "NIFTY" THEN Blobs ELSE {EmptyBlob},
        o \in IF symbol = "NIFTY" THEN ProtectiveOrders ELSE {<< 0, 0, 0 >>} }

InitRestore ==
    /\ InitService
    /\ enabled = TRUE
    /\ arg = NoArg
    /\ tasks = NoTasks
    /\ result = NoResult
    /\ listener = NoListener
    /\ active_positions = EmptyMap
    /\ ledger \in {[sy \in RestoreSymbols |-> IF sy = "NIFTY" THEN a ELSE b] :
                       a \in Rows("NIFTY"), b \in Rows("BANKNIFTY")}

StartupOnce ==
    /\ mon.n = 0
    /\ \E analyze_mode \in BOOLEAN, db \in {"ok", "read_error"} :
          Startup(analyze_mode, db)

NextRestore == StartupOnce

SpecRestore == InitRestore /\ [][NextRestore]_vars

(* ------------- calls into the position monitor, in any order ----------- *)
MonIds == {1, 2}

\* the positions the callers register
AddArgs ==
    [action : {"BUY", "SELL"}, quantity : {50}, entry_price : {10000},
     stop_loss : {9000}, targets : {<< 11000, 11200 >>}]

SlValues == {9500}
SlOrderIds == {0, 7}
TargetValues == {11500}
TargetLists == {<< 12000, 12500 >>}
Statuses == {"active", "pending_open"}
CurrentPrices == {9900, 10000, 10100, 10200}
Quantities == {25}
RemainingQuantities == {-25, 0, 25, 75}
HitFlags == {"t1_hit", "t2_hit", "t3_hit"}
Reasons == {"closed", "sl_hit"}

\* the paper-trading engine opens the ledger row of the symbol (a fill)
LedgerRowOpened ==
    /\ \E s \in MonSymbols :
          /\ ledger[s].quantity = 0
          /\ ledger' = [ledger EXCEPT ![s] = OpenRow]
    /\ UNCHANGED << active_positions, now, position_history, mon, removed, prices_seen >>
    /\ UNCHANGED service_vars

\* one call of a mutator, start to return
MonitorCall(op, order_id, value, db, r) ==
    /\ mon.n < MaxMonCalls
    /\ active_positions' = r.active
    /\ ledger' = r.ledger
    /\ mon' = [n |-> mon.n + 1, op |-> op, order_id |-> order_id,
               known |-> order_id \in DOMAIN active_positions,
               value |-> value, db |-> db, ret |-> r.ret]
    /\ UNCHANGED << now, position_history, removed >>
    /\ UNCHANGED service_vars

AddPosition ==
    \E order_id \in MonIds, a \in AddArgs :
       LET pos == NewPosition(order_id, "NIFTY", "NFO", a.action, a.quantity,
                              a.entry_price, a.stop_loss, a.targets, NoSignal, "MIS")
       IN /\ MonitorCall("add_position", order_id, a, "",
                         Mutated("None", add_position(active_positions, pos), ledger))
          /\ prices_seen' = Put(prices_seen, order_id, {})

UpdateSl ==
    /\ \E order_id \in MonIds, new_sl \in SlValues, sl_order_id \in SlOrderIds, db \in DbAnswers :
          MonitorCall("update_sl", order_id, new_sl, db,
                      update_sl(active_positions, ledger, order_id, new_sl, sl_order_id, db))
    /\ UNCHANGED prices_seen

UpdateTarget ==
    /\ \E order_id \in MonIds, new_target \in TargetValues, db \in DbAnswers :
          MonitorCall("update_target", order_id, new_target, db,
                      update_target(active_positions, ledger, order_id, new_target, db))
    /\ UNCHANGED prices_seen

UpdateTargets ==
    /\ \E order_id \in MonIds, targets \in TargetLists, db \in DbAnswers :
          MonitorCall("update_targets", order_id, targets, db,
                      update_targets(active_positions, ledger, order_id, targets, db))
    /\ UNCHANGED prices_seen

UpdateT3Timer ==
    /\ \E order_id \in MonIds :
          MonitorCall("update_t3_timer", order_id, now + 1, "",
                      update_t3_timer(active_positions, ledger, order_id, now + 1))
    /\ UNCHANGED prices_seen

UpdateStatus ==
    /\ \E order_id \in MonIds, new_status \in Statuses :
          MonitorCall("update_status", order_id, new_status, "",
                      update_status(active_positions, ledger, order_id, new_status))
    /\ UNCHANGED prices_seen

UpdateSlOrderId ==
    /\ \E order_id \in MonIds, sl_order_id \in SlOrderIds \ {0} :
          MonitorCall("update_sl_order_id", order_id, sl_order_id, "",
                      update_sl_order_id(active_positions, ledger, order_id, sl_order_id))
    /\ UNCHANGED prices_seen

UpdateHighestPrice ==
    \E order_id \in MonIds, current_price \in CurrentPrices :
       /\ MonitorCall("update_highest_price", order_id, current_price, "",
                      update_highest_price(active_positions, ledger, order_id, current_price))
       /\ prices_seen' =
            IF order_id \in DOMAIN active_positions /\ order_id \in DOMAIN prices_seen
            THEN [prices_seen EXCEPT ![order_id] = @ \cup {current_price}]
            ELSE prices_seen

UpdateQuantity ==
    /\ \E order_id \in MonIds, new_quantity \in Quantities :
          MonitorCall("update_quantity", order_id, new_quantity, "",
                      update_quantity(active_positions, ledger, order_id, new_quantity))
    /\ UNCHANGED prices_seen

MarkT1ExitDone ==
    /\ \E order_id \in MonIds :
          MonitorCall("mark_t1_exit_done", order_id, TRUE, "",
                      mark_t1_exit_done(active_positions, ledger, order_id))
    /\ UNCHANGED prices_seen

UpdateRemainingQuantity ==
    /\ \E order_id \in MonIds, new_quantity \in RemainingQuantities, db \in DbAnswers :
          MonitorCall("update_remaining_quantity", order_id, new_quantity, db,
                      update_remaining_quantity(active_positions, ledger, order_id, new_quantity, db))
    /\ UNCHANGED prices_seen

SetTargetHitFlag ==
    /\ \E order_id \in MonIds, flag_name \in HitFlags, db \in DbAnswers :
          MonitorCall("set_target_hit_flag", order_id, flag_name, db,
                      set_target_hit_flag(active_positions, ledger, order_id, flag_name, TRUE, db))
    /\ UNCHANGED prices_seen

DisableTrailing ==
    /\ \E order_id \in MonIds :
          MonitorCall("disable_trailing", order_id, FALSE, "",
                      disable_trailing(active_positions, ledger, order_id))
    /\ UNCHANGED prices_seen

EnableTrailing ==
    /\ \E order_id \in MonIds :
          MonitorCall("enable_trailing", order_id, TRUE, "",
                      enable_trailing(active_positions, ledger, order_id))
    /\ UNCHANGED prices_seen

\* one remove_position call, start to return
RemoveCall(order_id, reason) ==
    LET r == remove_position(active_positions, position_history, order_id, reason, now)
    IN /\ active_positions' = r.active
       /\ position_history' = r.history
       /\ removed' = IF r.ret = "None" THEN removed
                     ELSE Append(removed, Closed(active_positions[order_id], reason, now))
       /\ mon' = [n |-> mon.n + 1, op |-> "remove_position", order_id |-> order_id,
                  known |-> order_id \in DOMAIN active_positions,
                  value |-> reason, db |-> "", ret |-> r.ret]
       /\ UNCHANGED << now, ledger, prices_seen >>
       /\ UNCHANGED service_vars

RemovePosition ==
    /\ mon.n < MaxMonCalls
    /\ \E order_id \in MonIds, reason \in Reasons : RemoveCall(order_id, reason)

InitMon ==
    /\ InitService
    /\ NothingRestored
    /\ enabled = TRUE
    /\ arg = NoArg
    /\ tasks = NoTasks
    /\ result = NoResult
    /\ listener = NoListener

NextMon ==
    \/ LedgerRowOpened
    \/ AddPosition
    \/ UpdateSl
    \/ UpdateTarget
    \/ UpdateTargets
    \/ UpdateT3Timer
    \/ UpdateStatus
    \/ UpdateSlOrderId
    \/ UpdateHighestPrice
    \/ UpdateQuantity
    \/ MarkT1ExitDone
    \/ UpdateRemainingQuantity
    \/ SetTargetHitFlag
    \/ DisableTrailing
    \/ EnableTrailing
    \/ RemovePosition

SpecMon == InitMon /\ [][NextMon]_vars

(* ------- positions opened and closed one after another, for long ------- *)
\* the broker hands out the next order id and the position is registered
OpenNext ==
    /\ Len(removed) < MaxClosures
    /\ active_positions = EmptyMap
    /\ order_seq' = order_seq + 1
    /\ active_positions' =
          add_position(active_positions,
                       NewPosition(order_seq + 1, "NIFTY", "NFO", "BUY", 50,
                                   10000, 9000, << 11000, 11200 >>, NoSignal, "MIS"))
    /\ UNCHANGED << enabled, recent_signals, stats, now, call, accepted, arg, tasks, result, listener >>
    /\ UNCHANGED monitor_vars

CloseIt ==
    /\ \E order_id \in DOMAIN active_positions : RemoveCall(order_id, "closed")

NextHist == OpenNext \/ CloseIt

SpecHist == InitMon /\ [][NextHist]_vars

(* ----------- a position trailed, then the process restarted ----------- *)
\* the signal data the paper-trading engine stores with a row it opens:
\* nothing, or the payload of the signal with its stop loss
SignalBlobs == {EmptyBlob, [sl |-> 9000]}

LedgerRowOpenedFromSignal ==
    /\ \E s \in MonSymbols, blob \in SignalBlobs :
          /\ ledger[s].quantity = 0
          /\ ledger' = [ledger EXCEPT ![s] = Row(RowId(s), 50, "today", blob, 0, 0, 0)]
    /\ UNCHANGED << active_positions, now, position_history, mon, removed, prices_seen >>
    /\ UNCHANGED service_vars

\* the process is stopped and started again
Restart ==
    /\ mon.n < MaxMonCalls
    /\ \E analyze_mode \in BOOLEAN, db \in {"ok", "read_error"} :
          Startup(analyze_mode, db)

NextRestart ==
    \/ LedgerRowOpenedFromSignal
    \/ AddPosition
    \/ UpdateSl
    \/ UpdateRemainingQuantity
    \/ SetTargetHitFlag
    \/ Restart

SpecRestart == InitMon /\ [][NextRestart]_vars

(* ============================== properties ============================ *)
\* a step that is one execute_signal call
IsCall == call'.n # call.n

\* the signal was seen on the channel less than duplicate_window seconds
\* before time t, according to the channel's list
SeenWithinWindow(recent, channel, sig, t) ==
    \E i \in 1..Len(recent[channel]) :
        /\ recent[channel][i][1] = _generate_signal_hash(sig)
        /\ t - recent[channel][i][2] < duplicate_window

\* the structural rule of the signal data model
StructurallyValid(sig) ==
    /\ sig.action # ""
    /\ sig.symbol # ""
    /\ (sig.tgt # 0 \/ sig.targets # << >>)
    /\ (sig.strike = "" <=> sig.option_type = "")

\* C1: order placement is invoked during a call only if, at that call, the
\* service is enabled, the confidence reaches the threshold, the signal is
\* not a duplicate on its channel within the window and it is structurally
\* valid; in every other case the call returns (False, reason), places no
\* order and registers no position.
C1_PlacementOnlyPastAllGates ==
    [][IsCall =>
        LET gates == /\ enabled
                     /\ call'.confidence >= confidence_threshold
                     /\ ~SeenWithinWindow(recent_signals, call'.channel,
                                          call'.signal_out, now)
                     /\ StructurallyValid(call'.signal_out)
        IN /\ call'.placed > 0 => gates
           /\ ~gates => /\ call'.ret = FALSE
                        /\ call'.msg # ""
                        /\ call'.placed = 0
                        /\ call'.order = NoOrder
                        /\ active_positions' = active_positions]_vars

\* a second call in a row reaches order placement
C1_Witness ==
    /\ call.n = 2
    /\ call.placed = 1
    /\ stats.skipped_disabled + stats.skipped_low_confidence
          + stats.skipped_duplicate + stats.failed >= 1

\* C2: on an enabled service and with confidence above the threshold, a
\* signal whose hash last got past the duplicate gate on the same channel
\* less than duplicate_window seconds ago returns (False, "Duplicate
\* signal") and places no order; once duplicate_window seconds have passed
\* since then it gets past the duplicate gate again, whatever duplicates
\* were suppressed in between.
C2_DuplicateWindow ==
    [][(IsCall /\ enabled /\ call'.confidence >= confidence_threshold) =>
        \A x \in accepted :
            (x[1] = call'.channel /\ x[2] = _generate_signal_hash(call'.signal_out)) =>
                /\ now - x[3] < duplicate_window =>
                      /\ call'.ret = FALSE
                      /\ call'.msg = "Duplicate signal"
                      /\ call'.placed = 0
                /\ now - x[3] >= duplicate_window =>
                      call'.msg # "Duplicate signal"]_vars

\* one hash on one channel: accepted, suppressed as a duplicate, then
\* accepted again after the window
C2_Witness ==
    /\ Cardinality(accepted) = 1
    /\ call.n = 3
    /\ stats.executed = 2
    /\ stats.skipped_duplicate = 1
    /\ call.ret = TRUE

\* C3: every call invokes order placement at most once, and it returns
\* success exactly when that one invocation reported success.
C3_OnePlacementPerCall ==
    /\ call.placed <= 1
    /\ call.ret = TRUE <=> (call.placed = 1 /\ call.place_result = "success")

\* a successful call after a failed one: one order each, one order id
C3_Witness ==
    /\ call.n = 2
    /\ call.ret = TRUE
    /\ call.placed = 1
    /\ stats.failed = 1
    /\ order_seq = 1

\* C5: when order placement reports failure the call returns (False,
\* message with the broker's error), the failure counter goes up by one,
\* the executed counter stays and the monitor gets no position.
C5_PlacementFailure ==
    [][(IsCall /\ call'.place_result = "fail") =>
        /\ call'.ret = FALSE
        /\ call'.msg = "Order failed"
        /\ call'.error = "broker message"
        /\ stats'.failed = stats.failed + 1
        /\ stats'.executed = stats.executed
        /\ active_positions' = active_positions]_vars

\* a failed placement while the monitor already holds a position
C5_Witness ==
    /\ call.place_result = "fail"
    /\ stats.executed = 1
    /\ DOMAIN active_positions # {}

\* the option leg of the payload has a strike that is no number
StrikeNoNumber(sig) ==
    sig.strike # "" /\ sig.option_type # "" /\ ~IsNumber(sig.strike)

\* the payload or the collaborators' answers make the call raise: the
\* strike that is no number, an entry-pricing refusal or the SELL
\* conversion, the auth lookup, or order placement
RaisesInConversion(sig, env) ==
    \/ StrikeNoNumber(sig)
    \/ /\ sig.price # 0
       /\ env.quote.kind = "lp"
       /\ env.quote.lp > 0
       /\ \/ /\ Upper(sig.action) = "BUY"
             /\ env.quote.lp >= sig.price
             /\ \/ env.quote.lp < sig.price + min_entry_tolerance
                \/ env.quote.lp > sig.price + max_entry_tolerance
          \/ Upper(sig.action) = "SELL"

RaisesAfterConversion(sig, env) ==
    /\ sig.price = 0
    /\ env.auth = "raise" \/ (env.auth = "ok" /\ env.place = "raise")

\* C6: an exception raised at any stage of a call (order conversion,
\* entry-pricing refusal, auth lookup, order placement) does not reach the
\* caller: the call returns (False, message) and the failed counter goes
\* up by one.
C6_ExceptionsAreCaught ==
    [][IsCall =>
        LET sig == call'.signal_out
            raises == StructurallyValid(sig)
                      /\ (RaisesInConversion(sig, arg.env)
                          \/ RaisesAfterConversion(sig, arg.env))
        IN (raises \/ call'.raised # "") =>
              /\ call'.ret = FALSE
              /\ call'.msg = "Exception"
              /\ call'.error # ""
              /\ stats'.failed = stats.failed + 1
              /\ stats'.executed = stats.executed
              /\ stats'.total_signals = stats.total_signals + 1]_vars

\* an entry-pricing refusal came back as a failure tuple
C6_Witness ==
    /\ call.n = 1
    /\ call.raised = "convert"
    /\ call.error = "ValueError: pullback"
    /\ call.ret = FALSE
    /\ stats.failed = 1

\* the call of SpecEntry has returned, its payload was structurally valid,
\* symbol resolution came back so that conversion went on to the entry
\* decision, the auth lookup answered and order placement did not raise:
\* whatever order request conversion produced was handed to order placement
Converted ==
    /\ call.n = 1
    /\ StructurallyValid(call.signal_out)
    /\ ~StrikeNoNumber(call.signal_out)
    /\ arg.env.auth = "ok"
    /\ arg.env.place # "raise"

LiveQuote == arg.env.quote.kind = "lp" /\ arg.env.quote.lp > 0

HandedOver(pricetype, trigger, price) ==
    /\ call.raised = ""
    /\ call.placed = 1
    /\ call.order.pricetype = pricetype
    /\ call.order.trigger_price = trigger
    /\ call.order.price = price

Refused(error) ==
    /\ call.raised = "convert"
    /\ call.error = error
    /\ call.ret = FALSE
    /\ call.placed = 0
    /\ call.order = NoOrder

\* C4: after a successful placement the position is registered at once
\* when the placed order is a MARKET order, and for a STOP / LIMIT order
\* exactly when the order's status is complete.
C4_RegisteredWhenFilled ==
    (call.n = 1 /\ call.ret = TRUE) =>
        /\ call.order.pricetype = "MARKET" =>
              call.registered /\ call.order_id \in DOMAIN active_positions
        /\ call.order.pricetype \in {"SL", "LIMIT"} =>
              (call.registered <=> arg.env.status = "complete")

\* C7: BUY with entry E and live quote Q: Q < E gives a stop order
\* (trigger E+0.1, limit E+1.5); E+0.1 <= Q <= E+1.5 gives a limit order at
\* Q+0.05; E <= Q < E+0.1 and Q > E+1.5 are refused and produce no order.
C7_BuyEntryDecision ==
    (Converted /\ LiveQuote /\ call.signal_out.price # 0
       /\ Upper(call.signal_out.action) = "BUY") =>
        LET E == call.signal_out.price
            Q == arg.env.quote.lp
        IN /\ Q < E => HandedOver("SL", E + 10, E + 150)
           /\ (E + 10 <= Q /\ Q <= E + 150) => HandedOver("LIMIT", 0, Q + 5)
           /\ (E <= Q /\ Q < E + 10) => Refused("ValueError: waiting")
           /\ Q > E + 150 => Refused("ValueError: pullback")

\* a BUY whose quote sits on the upper edge of the band went out as a limit
C7_Witness ==
    /\ Converted /\ LiveQuote
    /\ call.signal_out.action = "BUY"
    /\ call.signal_out.price # 0
    /\ arg.env.quote.lp = call.signal_out.price + 150
    /\ call.placed = 1
    /\ call.order.pricetype = "LIMIT"

\* C8: SELL with entry E and live quote Q mirrors BUY: Q > E gives a stop
\* order (trigger E-0.1, limit E-1.5); E-1.5 <= Q <= E-0.1 gives a limit
\* order; E-0.1 < Q <= E and Q < E-1.5 are refused; in the two other cases
\* an order request is handed to order placement.
C8_SellEntryDecision ==
    (Converted /\ LiveQuote /\ call.signal_out.price # 0
       /\ Upper(call.signal_out.action) = "SELL") =>
        LET E == call.signal_out.price
            Q == arg.env.quote.lp
        IN /\ Q > E => HandedOver("SL", E - 10, E - 150)
           /\ (E - 150 <= Q /\ Q <= E - 10) =>
                 (call.raised = "" /\ call.placed = 1 /\ call.order.pricetype = "LIMIT")
           /\ (E - 10 < Q /\ Q <= E) => (call.raised = "convert" /\ call.placed = 0)
           /\ Q < E - 150 => (call.raised = "convert" /\ call.placed = 0)

NoLiveQuote == arg.env.quote.kind \in {"raise", "empty"} \/ arg.env.quote.lp <= 0

\* C9: without a live quote conversion does not abort and goes by the
\* condition: 'above' gives a stop order (trigger E+0.1, limit E+1.0),
\* 'below' a stop order (trigger E-0.1, limit E-1.0), anything else a
\* plain limit at E+0.1; a signal without a price gives a MARKET order
\* with price 0.
C9_NoQuoteFallback ==
    Converted =>
        LET E == call.signal_out.price
            c == call.signal_out.condition
        IN /\ (E # 0 /\ NoLiveQuote /\ c \in {"above", "ABOVE"}) =>
                 HandedOver("SL", E + 10, E + 100)
           /\ (E # 0 /\ NoLiveQuote /\ c = "below") =>
                 HandedOver("SL", E - 10, E - 100)
           /\ (E # 0 /\ NoLiveQuote /\ c \notin {"above", "ABOVE", "below"}) =>
                 HandedOver("LIMIT", 0, E + 10)
           /\ E = 0 => HandedOver("MARKET", 0, 0)

\* the quote lookup raised and a 'below' signal went out as a stop order
C9_Witness ==
    /\ Converted
    /\ arg.env.quote.kind = "raise"
    /\ call.signal_out.condition = "below"
    /\ call.placed = 1
    /\ call.order.pricetype = "SL"
    /\ call.order.trigger_price = call.signal_out.price - 10

\* C10: structural validation accepts a signal exactly when it has an
\* action, a symbol, a tgt or targets, and strike and option_type both or
\* neither; a failing signal comes back as (False, "Invalid: <reason>"),
\* not as an exception, and no order is placed.
C10_StructuralValidation ==
    call.n = 1 =>
        /\ StructurallyValid(call.signal_out) <=> call.msg # "Invalid"
        /\ ~StructurallyValid(call.signal_out) =>
              /\ call.ret = FALSE
              /\ call.msg = "Invalid"
              /\ call.error \in {"Missing 'action' (BUY/SELL)", "Missing 'symbol'",
                                  "Missing Mandatory Target",
                                  "Options signal missing 'strike'",
                                  "Options signal missing 'option_type' (CE/PE)"}
              /\ call.raised = ""
              /\ call.placed = 0
              /\ call.order = NoOrder
              /\ active_positions = EmptyMap

\* an option type without a strike was turned down with its reason
C10_Witness ==
    /\ call.n = 1
    /\ call.signal_out.option_type = "CE"
    /\ call.signal_out.strike = ""
    /\ call.msg = "Invalid"
    /\ call.error = "Options signal missing 'strike'"
    /\ call.placed = 0

(* ----------------------- position monitor claims ---------------------- *)
\* a step that is one call into the position monitor
IsMonCall == mon'.n # mon.n

\* the mutators that answer with a boolean
Mutators ==
    {"update_sl", "update_target", "update_targets", "update_status",
     "update_sl_order_id", "update_highest_price", "update_quantity",
     "update_remaining_quantity", "mark_t1_exit_done", "set_target_hit_flag",
     "enable_trailing", "disable_trailing"}

\* the mutators that mirror their change into the ledger
PersistingMutators ==
    {"update_sl", "update_target", "update_targets",
     "update_remaining_quantity", "set_target_hit_flag"}

SetMax(S) == CHOOSE m \in S : \A x \in S : x <= m

\* C11: right after add_position the position stored under the given id
\* has status 'pending_open', remaining_quantity = original_quantity = the
\* given quantity, current_sl = original_sl = the given stop loss, no
\* sl_order_id and t1_hit, t2_hit, t3_hit all False.
C11_AddPositionStartsPending ==
    mon.op = "add_position" =>
        /\ mon.order_id \in DOMAIN active_positions
        /\ LET p == active_positions[mon.order_id]
           IN /\ p.status = "pending_open"
              /\ p.remaining_quantity = mon.value.quantity
              /\ p.original_quantity = mon.value.quantity
              /\ p.current_sl = mon.value.stop_loss
              /\ p.original_sl = mon.value.stop_loss
              /\ p.sl_order_id = 0
              /\ ~p.t1_hit /\ ~p.t2_hit /\ ~p.t3_hit

\* add_position on an id whose earlier position had been changed
C11_Witness ==
    /\ mon.op = "add_position" /\ mon.known /\ mon.n = 3
    /\ active_positions[mon.order_id].status = "pending_open"

C13_HistoryBoundedFifo ==
    /\ Len(position_history) <= 100
    /\ LET n == Len(removed)
           k == IF n > 100 THEN n - 100 ELSE 0
       IN /\ Len(position_history) = n - k
          /\ \A i \in 1..(n - k) : position_history[i] = removed[k + i]

\* more than 100 removals: the first closed position is gone
C13_Witness ==
    /\ Len(removed) > 100
    /\ Len(position_history) = 100
    /\ position_history[1].order_id = Len(removed) - 99
    /\ position_history[100].order_id = Len(removed)

\* C14: a call on an order id that is not in the active map (never added
\* or already removed) changes neither the active map nor the history;
\* the mutators return False and remove_position returns None.
C14_UnknownIdIsNoOp ==
    [][(IsMonCall /\ ~mon'.known /\ mon'.op # "add_position") =>
        /\ active_positions' = active_positions
        /\ position_history' = position_history
        /\ mon'.ret = IF mon'.op = "remove_position" THEN "None" ELSE "False"]_vars

\* remove_position on an id that was removed before
C14_Witness ==
    /\ mon.op = "remove_position" /\ ~mon.known /\ mon.ret = "None"
    /\ Len(position_history) = 1
    /\ position_history[1].order_id = mon.order_id
    /\ Len(removed) = 1

\* C15: every mutator returns True if and only if the order id was in the
\* active map when it was called.
C15_TrueIffKnown ==
    mon.op \in Mutators => (mon.ret = "True" <=> mon.known)

\* C16: the highest_price of a position is the maximum of its entry price
\* and of all the prices given to update_highest_price since it was added.
C16_HighestPriceIsRunningMax ==
    \A id \in DOMAIN active_positions \cap DOMAIN prices_seen :
        active_positions[id].highest_price =
            SetMax({active_positions[id].entry_price} \cup prices_seen[id])

\* a lower price given after a higher one
C16_Witness ==
    /\ mon.op = "update_highest_price" /\ mon.known /\ mon.value = 10100
    /\ mon.ret = "False"
    /\ prices_seen[mon.order_id] = {10100, 10200}
    /\ active_positions[mon.order_id].highest_price = 10200

\* C17: a persisting mutator called on an active id returns True and the
\* position holds the new value, whatever the ledger did: also when the
\* paper-trading ledger raised on the query or on the commit.
C17_LedgerFailureKeepsMutation ==
    (mon.op \in PersistingMutators /\ mon.known) =>
        /\ mon.ret = "True"
        /\ mon.order_id \in DOMAIN active_positions
        /\ LET p == active_positions[mon.order_id]
           IN CASE mon.op = "update_sl" -> p.current_sl = mon.value
                [] mon.op = "update_target" -> p.final_target = mon.value
                [] mon.op = "update_targets" -> p.targets = mon.value
                [] mon.op = "update_remaining_quantity" -> p.remaining_quantity = mon.value
                [] mon.op = "set_target_hit_flag" -> p[mon.value] = TRUE

\* the commit of an update_sl raised with the ledger row open
C17_Witness ==
    /\ mon.op = "update_sl" /\ mon.known /\ mon.db = "commit_error"
    /\ ledger["NIFTY"].quantity # 0
    /\ "stop_loss" \notin DOMAIN ledger["NIFTY"].sig
    /\ active_positions[mon.order_id].current_sl = 9500

\* C18: the status of a position only moves forward: an active position
\* stays active while it is in the active map, and a position leaves the
\* active map only through remove_position, closed with its reason.
C18_StatusMovesForward ==
    [][\A id \in DOMAIN active_positions :
          /\ (active_positions[id].status = "active" /\ id \in DOMAIN active_positions')
                => active_positions'[id].status = "active"
          /\ id \notin DOMAIN active_positions'
                => /\ mon'.op = "remove_position" /\ mon'.order_id = id
                   /\ position_history'[Len(position_history')].status = mon'.value]_vars

\* C19: an order id that was closed by remove_position is never in the
\* active map again.
C19_ClosedIdNeverActiveAgain ==
    \A i \in 1..Len(removed) : removed[i].order_id \notin DOMAIN active_positions

\* C20: every active position has 0 <= remaining_quantity <= original_quantity.
C20_RemainingWithinOriginal ==
    \A id \in DOMAIN active_positions :
        /\ 0 <= active_positions[id].remaining_quantity
        /\ active_positions[id].remaining_quantity <= active_positions[id].original_quantity

(* ------------------------- restore at startup ------------------------- *)
\* a step that is the startup restore in paper-trading mode, ledger answering
IsRestore ==
    /\ mon'.n # mon.n /\ mon'.op = "restore_from_sandbox"
    /\ mon'.value = TRUE /\ mon'.db = "ok"

\* the last call was a startup restore in paper-trading mode, ledger answering
Restored ==
    /\ mon.op = "restore_from_sandbox"
    /\ mon.value = TRUE /\ mon.db = "ok"

\* C21: in paper-trading mode the startup restore zeroes every open ledger
\* row of a previous calendar day and creates no position for it, restores
\* every open row of today as an active position and leaves that row as it
\* is; outside paper-trading mode it restores nothing and writes nothing.
C21_StaleRowsExpiredTodayRowsRestored ==
    [][(mon'.n # mon.n /\ mon'.op = "restore_from_sandbox") =>
          IF mon'.value = TRUE
          THEN mon'.db = "ok" =>
                 \A sy \in DOMAIN ledger :
                    LET row == ledger[sy]
                    IN /\ (row.quantity # 0 /\ row.created = "earlier")
                            => /\ ledger'[sy].quantity = 0
                               /\ SandboxId(row.id) \notin DOMAIN active_positions'
                       /\ (row.quantity # 0 /\ row.created = "today")
                            => /\ ledger'[sy] = row
                               /\ SandboxId(row.id) \in DOMAIN active_positions'
                               /\ active_positions'[SandboxId(row.id)].symbol = sy
                               /\ active_positions'[SandboxId(row.id)].quantity
                                    = (IF row.quantity < 0 THEN -row.quantity ELSE row.quantity)
                       /\ row.quantity = 0
                            => /\ ledger'[sy] = row
                               /\ SandboxId(row.id) \notin DOMAIN active_positions'
          ELSE active_positions' = EmptyMap /\ ledger' = ledger]_vars

\* a row of yesterday was expired next to a row of today that was restored
C21_Witness ==
    /\ Restored
    /\ ledger["NIFTY"].created = "earlier" /\ ledger["NIFTY"].quantity = 0
    /\ ledger["NIFTY"].updated = "startup"
    /\ ledger["BANKNIFTY"].created = "today"
    /\ DOMAIN active_positions = {SandboxId(RowId("BANKNIFTY"))}

\* the stop loss taken from the first source that has one: embedded in the
\* signal data, open protective order, most recent protective order, 10%
RestoredSlEmbeddedFirst(row) ==
    LET embedded == EmbeddedSl(row.sig)
        from_order == IF row.live_order # 0 /\ row.live_trigger # 0 THEN row.live_trigger
                      ELSE IF row.live_order = 0 /\ row.hist_trigger # 0 THEN row.hist_trigger
                      ELSE 0
        found == IF embedded # 0 THEN embedded ELSE from_order
    IN IF found = 0 /\ row.average_price # 0
       THEN IF row.quantity > 0 THEN (row.average_price * 9) \div 10
                                ELSE (row.average_price * 11) \div 10
       ELSE found


\* C22: the stop loss of a restored position comes from the first source
\* that has one, in the order signal data, open protective order, most
\* recent protective order, 10% of the entry price.
C22_SlByPriority ==
    Restored =>
       \A sy \in DOMAIN ledger :
          (ledger[sy].quantity # 0 /\ ledger[sy].created = "today")
             => active_positions[SandboxId(ledger[sy].id)].current_sl
                  = RestoredSlEmbeddedFirst(ledger[sy])

\* C23: an update_sl whose value reached the ledger row of today, with no
\* protective order in the ledger, is followed by a restart that restores
\* the position of that row with that value as current_sl.
C23_TrailedSlSurvivesRestart ==
    [][(/\ IsRestore
        /\ mon.op = "update_sl" /\ mon.known /\ mon.db = "ok"
        /\ ledger["NIFTY"].quantity # 0 /\ ledger["NIFTY"].created = "today"
        /\ ledger["NIFTY"].live_order = 0 /\ ledger["NIFTY"].hist_trigger = 0
        /\ DictGet(ledger["NIFTY"].sig, "stop_loss", 0) = mon.value)
          => /\ SandboxId(ledger["NIFTY"].id) \in DOMAIN active_positions'
             /\ active_positions'[SandboxId(ledger["NIFTY"].id)].current_sl = mon.value]_vars

\* the smallest element of a non-empty sequence of numbers
SeqMin(q) == CHOOSE m \in {q[i] : i \in DOMAIN q} : \A i \in DOMAIN q : m <= q[i]

\* C24: the final target of a position is the largest of its targets for a
\* BUY and the smallest for a SELL.
C24_FinalTargetByAction ==
    \A id \in DOMAIN active_positions :
       LET pos == active_positions[id]
       IN pos.targets # << >> =>
             pos.final_target = (IF pos.action = "BUY" THEN SeqMax(pos.targets)
                                                       ELSE SeqMin(pos.targets))


(* ------------------------- execute_signal, again ---------------------- *)
\* C25: a call of execute_signal leaves the payload it is given with the
\* fields and values it had before the call.
C25_SignalNotMutated ==
    call.n > 0 => call.signal_out = call.signal_data

\* C26 as it was stated: a failed order placement leaves the duplicate
\* cache and the position monitor as they were before the call.
C26_FailedPlacementLeavesCacheAlone ==
    [][(IsCall /\ call'.msg = "Order failed") =>
          /\ recent_signals' = recent_signals
          /\ active_positions' = active_positions]_vars

\* C26: a call whose order placement fails changes, of the state of the
\* service and of the monitor, only the total counter, the failed counter
\* and the duplicate cache of its channel, where the signal is recorded
\* with the time of the call; an identical signal sent again on that
\* channel is skipped as a duplicate within duplicate_window seconds and
\* gets past the duplicate gate after them.
C26_FailedPlacementRecordsSignal ==
    [][IsCall =>
        /\ call'.msg = "Order failed" =>
              /\ stats' = [stats EXCEPT !.total_signals = @ + 1, !.failed = @ + 1]
              /\ active_positions' = active_positions
              /\ order_seq' = order_seq
              /\ enabled' = enabled
              /\ recent_signals' =
                    [recent_signals EXCEPT ![call'.channel] =
                        Append(SelectSeqFresh(@, now),
                               << _generate_signal_hash(call'.signal_out), now >>)]
        /\ (/\ call.msg = "Order failed"
            /\ call'.channel = call.channel
            /\ _generate_signal_hash(call'.signal_out) = _generate_signal_hash(call.signal_out)
            /\ enabled /\ call'.confidence >= confidence_threshold) =>
              \A x \in accepted :
                 (x[1] = call.channel /\ x[2] = _generate_signal_hash(call.signal_out)) =>
                    (call'.msg = "Duplicate signal" <=> now - x[3] < duplicate_window)]_vars

\* a placement failed and the same signal, sent again, was skipped
C26_Witness ==
    /\ call.n = 2
    /\ call.msg = "Duplicate signal"
    /\ stats.failed = 1 /\ stats.skipped_duplicate = 1 /\ stats.executed = 0
    /\ active_positions = EmptyMap

\* C27: after any calls the total counter is the sum of the outcome counters.
C27_TotalIsSumOfOutcomes ==
    stats.total_signals = stats.executed + stats.skipped_disabled
                            + stats.skipped_low_confidence + stats.skipped_duplicate
                            + stats.failed

\* C28: for a signal with a price E and no stop loss the call sets the stop
\* loss to E - 10% of E for BUY or no action and to E + 10% of E for SELL,
\* rounded to one decimal (E = 100 gives 90.0 and 110.0); a stop loss that
\* is given stays, and without a price none is set.
C28_AutoStopLoss ==
    call.n = 1 =>
       LET s == call.signal_data
           sl == call.signal_out.sl
           exact == IF Upper(s.action) \in {"BUY", ""} THEN 9 * s.price ELSE 11 * s.price
       IN /\ (s.sl # 0 \/ s.price = 0) => sl = s.sl
          /\ (s.sl = 0 /\ s.price # 0) =>
                /\ sl % 10 = 0
                /\ 10 * sl - exact <= 50 /\ exact - 10 * sl <= 50
          /\ (s.sl = 0 /\ s.price = 10000) =>
                sl = (IF Upper(s.action) \in {"BUY", ""} THEN 9000 ELSE 11000)

\* a SELL at 123.45 without a stop loss got 135.8
C28_Witness ==
    /\ call.n = 1
    /\ call.signal_data.action = "sell" /\ call.signal_data.price = 12345
    /\ call.signal_data.sl = 0
    /\ call.signal_out.sl = 13580

\* C29: a position registered from a signal with one target T has the
\* targets T, T+2, T+4; from a signal with two or more targets it has
\* these, in their order.
C29_TargetsSeeded ==
    (call.n = 1 /\ call.registered) =>
       LET s == call.signal_data
           given == IF s.targets # << >> THEN s.targets ELSE << s.tgt >>
           registered == active_positions[call.order_id].targets
       IN /\ Len(given) = 1 =>
                registered = << given[1], given[1] + 200, given[1] + 400 >>
          /\ Len(given) >= 2 => registered = given

\* a position registered from a signal with the one target 110
C29_Witness ==
    /\ call.n = 1 /\ call.registered
    /\ call.signal_data.targets = << 11000 >>
    /\ active_positions[call.order_id].targets = << 11000, 11200, 11400 >>

\* C30: for an option leg whose symbol is not resolved (no contract found,
\* lookup failed, strike no number) the order goes to placement with the
\* generic symbol.
C30_UnresolvedGoesToPlacement ==
    (/\ call.n = 1
     /\ StructurallyValid(call.signal_out)
     /\ call.signal_out.strike # ""
     /\ call.signal_out.price = 0
     /\ arg.env.auth = "ok"
     /\ ~arg.env.resolved.found \/ StrikeNoNumber(call.signal_out))
       => /\ call.placed = 1
          /\ call.order.symbol = Upper(call.signal_out.symbol)

(* --------------------------- the gates, again ------------------------- *)
\* C36: a call rejected because the service is disabled or the confidence
\* is low leaves the duplicate lists of all channels as they were, and a
\* call is only ever skipped as a duplicate because of an earlier call with
\* the same hash on its channel that got past the duplicate gate less than
\* duplicate_window seconds before.
C36_RejectedSignalNotRecorded ==
    [][IsCall =>
        /\ call'.msg \in {"Auto-execution disabled", "Low confidence"} =>
              /\ recent_signals' = recent_signals
              /\ call'.placed = 0
        /\ call'.msg = "Duplicate signal" =>
              \E x \in accepted :
                 /\ x[1] = call'.channel
                 /\ x[2] = _generate_signal_hash(call'.signal_out)
                 /\ now - x[3] < duplicate_window]_vars

\* the payload was rejected once at a gate and, sent again at once on the
\* same channel, reached order placement
C36_Witness ==
    /\ call.n = 2
    /\ stats.skipped_disabled + stats.skipped_low_confidence = 1
    /\ call.placed = 1
    /\ now = 0
    /\ Len(recent_signals[arg.channel]) = 1

\* C37: a call changes the duplicate list of no channel but its own, and
\* it is skipped as a duplicate only when its own channel's list holds its
\* hash within the window; the same signal on another channel gets past
\* the duplicate gate.
C37_DuplicatesPerChannel ==
    [][IsCall =>
        /\ \A c \in Channels \ {call'.channel} : recent_signals'[c] = recent_signals[c]
        /\ call'.msg = "Duplicate signal" =>
              SeenWithinWindow(recent_signals, call'.channel, call'.signal_out, now)
        /\ (/\ enabled /\ call'.confidence >= confidence_threshold
            /\ ~SeenWithinWindow(recent_signals, call'.channel, call'.signal_out, now))
              => call'.msg # "Duplicate signal"]_vars

\* one signal placed an order on each of the two channels within the window
C37_Witness ==
    /\ call.n = 2
    /\ stats.executed = 2
    /\ Len(recent_signals["chA"]) = 1 /\ Len(recent_signals["chB"]) = 1
    /\ recent_signals["chA"][1][1] = recent_signals["chB"][1][1]
    /\ recent_signals["chA"][1][2] = recent_signals["chB"][1][2]

(* ---------------------- the frame of the mutators --------------------- *)
\* the position of id differs after the step in the given fields at most
OnlyChanged(id, fields) ==
    /\ id \in DOMAIN active_positions'
    /\ DOMAIN active_positions'[id] = DOMAIN active_positions[id]
    /\ \A f \in DOMAIN active_positions[id] \ fields :
          active_positions'[id][f] = active_positions[id][f]

\* C39: a mutator changes neither order_id, entry_price, original_sl nor
\* original_quantity of a position and no position but the one it is called
\* for; update_sl changes current_sl (and sl_order_id when one is given)
\* only, update_quantity quantity only, update_remaining_quantity
\* remaining_quantity only, set_target_hit_flag the named flag only.
C39_MutatorsKeepTheRest ==
    [][(IsMonCall /\ mon'.op \in Mutators) =>
          /\ DOMAIN active_positions' = DOMAIN active_positions
          /\ \A id \in DOMAIN active_positions :
                /\ OnlyChanged(id, DOMAIN active_positions[id]
                                     \ {"order_id", "entry_price", "original_sl",
                                        "original_quantity"})
                /\ id # mon'.order_id => active_positions'[id] = active_positions[id]
                /\ mon'.op = "update_sl" =>
                      /\ OnlyChanged(id, {"current_sl", "sl_order_id"})
                      /\ active_positions'[id].sl_order_id # active_positions[id].sl_order_id
                            => active_positions'[id].sl_order_id \in SlOrderIds \ {0}
                /\ mon'.op = "update_quantity" => OnlyChanged(id, {"quantity"})
                /\ mon'.op = "update_remaining_quantity" =>
                      OnlyChanged(id, {"remaining_quantity"})
                /\ mon'.op = "set_target_hit_flag" => OnlyChanged(id, {mon'.value})]_vars

\* the second target of one of two positions was flagged, the other
\* position and the first flag are as add_position left them
C39_Witness ==
    /\ mon.op = "set_target_hit_flag" /\ mon.known /\ mon.value = "t2_hit"
    /\ DOMAIN active_positions = {1, 2}
    /\ active_positions[mon.order_id].t2_hit
    /\ ~active_positions[mon.order_id].t1_hit
    /\ ~active_positions[3 - mon.order_id].t2_hit

(* ----------------------- progress and the restart --------------------- *)
\* the keys of a position that carry the progress of its partial exits
ProgressKeys ==
    {"status", "original_quantity", "remaining_quantity", "t1_hit", "t2_hit", "t3_hit"}

\* C40: an update_remaining_quantity or set_target_hit_flag that reached
\* the ledger row of today is followed by a restart that restores the
\* position of that row with the keys a registered position has and with
\* the persisted remaining quantity or flag.
C40_ProgressSurvivesRestart ==
    [][(/\ IsRestore
        /\ mon.op \in {"update_remaining_quantity", "set_target_hit_flag"}
        /\ mon.known /\ mon.db = "ok"
        /\ ledger["NIFTY"].quantity # 0 /\ ledger["NIFTY"].created = "today")
          => /\ SandboxId(ledger["NIFTY"].id) \in DOMAIN active_positions'
             /\ LET pos == active_positions'[SandboxId(ledger["NIFTY"].id)]
                IN /\ ProgressKeys \subseteq DOMAIN pos
                   /\ mon.op = "update_remaining_quantity" => pos.remaining_quantity = mon.value
                   /\ mon.op = "set_target_hit_flag" => pos[mon.value] = TRUE]_vars

(* ------------------------ concurrent tasks ---------------------------- *)
\* both tasks carry the same hash on the same channel
SameSignalTwice ==
    /\ tasks[1].channel = tasks[2].channel
    /\ _generate_signal_hash(tasks[1].signal_data) = _generate_signal_hash(tasks[2].signal_data)

\* C35: of two tasks with the same hash on the same channel that run on an
\* enabled service within the duplicate window, however the scheduler
\* interleaves them, at most one invokes order placement, and once both
\* have run the other one was skipped as a duplicate.
C35_OnePlacementForConcurrentTasks ==
    (enabled /\ SameSignalTwice /\ now < duplicate_window) =>
       /\ stats.executed + stats.failed <= 1
       /\ stats.total_signals = 2 => stats.skipped_duplicate = 1

\* the second task ran to its end while the first was suspended at its
\* await, and was skipped as a duplicate
C35_Witness ==
    /\ SameSignalTwice
    /\ \E t \in Tasks : tasks[t].pc = "alert" /\ tasks[3 - t].pc = "done"
    /\ stats.executed = 1
    /\ stats.skipped_duplicate = 1
    /\ now < duplicate_window

(* --------------------------- symbol lookup ---------------------------- *)
\* the rows of the table the lookup may choose from: exchange, strike,
\* option-type suffix and base-symbol prefix match and the expiry date is
\* today or later
Live(m) ==
    /\ m \in Range(arg.table)
    /\ m.exchange = arg.exchange
    /\ m.strike = 22000
    /\ m.suffix = arg.option_type
    /\ StartsWith(m.name, arg.base_symbol)
    /\ parse_expiry(m) >= arg.today

\* the contract expires in the month, and on the day if there is one, that
\* the tag names
DenotedByTag(m) ==
    /\ m.expiry.mon = arg.expiry_tag.mon
    /\ arg.expiry_tag.day # "" => DayNo(m.expiry.dd) = DayNo(arg.expiry_tag.day)

LiveTokens == {m \in Range(AllTokens) : Live(m)}
TaggedTokens == {m \in LiveTokens : arg.expiry_tag # NoTag /\ DenotedByTag(m)}

NearestOf(tokens, m) ==
    m \in tokens /\ \A o \in tokens : parse_expiry(m) <= parse_expiry(o)

\* C31: the lookup never returns an expired contract: it returns the live
\* matching contract with the nearest expiry, the nearest among those the
\* expiry tag names when there is a tag and a live contract it names, the
\* nearest live contract when the tag names none, and (None, None) when no
\* live contract matches.
C31_NearestLiveContract ==
    result.n = 1 =>
       /\ result.ret.kind = "pair"
       /\ LiveTokens = {} => result.ret = NonePair
       /\ LiveTokens # {} =>
             /\ result.ret.token # NoToken
             /\ IF TaggedTokens # {}
                THEN NearestOf(TaggedTokens, result.ret.token)
                ELSE NearestOf(LiveTokens, result.ret.token)

\* the same for strikes that are numbers, so that the lookup gets as far as
\* its query
C31_NearestLiveContractOfNumericStrike ==
    (result.n = 1 /\ IsNumber(arg.strike)) => C31_NearestLiveContract

\* the parts that hold: nothing expired or unmatched is returned, the
\* nearest live contract is returned without a tag or when the tag names
\* none, and a tag whose day is written as the table writes it is honoured
C31_LiveAndNearestUpToTagSpelling ==
    (result.n = 1 /\ IsNumber(arg.strike)) =>
       /\ result.ret.kind = "pair"
       /\ LiveTokens = {} => result.ret = NonePair
       /\ LiveTokens # {} =>
             /\ Live(result.ret.token)
             /\ TaggedTokens = {} => NearestOf(LiveTokens, result.ret.token)
             /\ (TaggedTokens # {} /\ arg.expiry_tag.day # "5") =>
                   NearestOf(TaggedTokens, result.ret.token)

(* ---------------------------- the classifier -------------------------- *)
\* an extraction that holds an action, or a symbol and one of price, stop
\* loss and target
GatePassed(e) ==
    \/ e.action # ""
    \/ e.symbol # "" /\ (e.price # "" \/ e.sl # "" \/ e.tgt # "")

\* what the extraction of the text is, whether classify asks for it or not
Extraction == _extract_signal_data(arg.text, ActionFound(arg.text), arg.valid_symbols)

\* C32: classify says is_signal only together with an extraction that holds
\* an action, or a symbol and one of price, stop loss and target; with a
\* raw score below 20, or an extraction that fails this, it says no signal
\* and returns no extraction, in the second case with half of
\* clamp(score/35, 0, 1) as the confidence; the confidence is within [0, 1].
C32_SignalOnlyWithMeaningfulExtraction ==
    result.n = 1 =>
       LET r == result.ret
           score == Score(arg.text)
       IN /\ r.is_signal => (r.extracted # NoExtraction /\ GatePassed(r.extracted))
          /\ (score < 20 \/ ~GatePassed(Extraction)) =>
                (~r.is_signal /\ r.extracted = NoExtraction)
          /\ (score >= 20 /\ ~GatePassed(Extraction)) =>
                2 * r.confidence = Confidence70(score)
          /\ r.confidence \in 0..70

\* a text with a raw score of 20 or more whose extraction fails the check
C32_Witness ==
    /\ result.n = 1
    /\ Score(arg.text) >= 20
    /\ ~GatePassed(Extraction)
    /\ ~result.ret.is_signal
    /\ result.ret.confidence > 0

\* the first word that holds a keyword of the price pattern and is followed
\* by a number, 0 if there is none
AnchoredAt == First({i \in 1..Len(arg.text) : PriceKeyword(arg.text[i]) # "" /\ NextNumber(arg.text, i) # 0})

\* C34: the extraction holds a condition exactly when its price comes from
\* a match anchored at one of the keywords above, below, around, near, at
\* and @, and the condition is then that keyword in lower case; a price
\* that comes from the fallback has no condition and is not the strike.
C34_ConditionFromAnchoredKeyword ==
    (result.n = 1 /\ result.ret.is_signal) =>
       LET e == result.ret.extracted
           keyword == PriceKeyword(arg.text[AnchoredAt])
       IN /\ e.condition # "" <=>
                (AnchoredAt # 0 /\ keyword \in {"above", "below", "around", "near", "at", "@"})
          /\ e.condition # "" => e.condition = keyword
          /\ AnchoredAt # 0 => e.price = arg.text[NextNumber(arg.text, AnchoredAt)]
          /\ (AnchoredAt = 0 /\ e.price # "") =>
                /\ e.condition = ""
                /\ e.price # e.strike
                /\ NumVal(e.price) # NumVal(e.strike)

\* a price after "above" with its condition, in a text whose first number
\* is the strike
C34_Witness ==
    /\ result.n = 1
    /\ result.ret.is_signal
    /\ result.ret.extracted.condition = "above"
    /\ result.ret.extracted.price = "150"
    /\ result.ret.extracted.strike = "22000"

\* a price after "entry", which sets no condition, and a fallback price
\* that had to pass over the strike
C34_WitnessNoCondition ==
    /\ result.n = 1
    /\ result.ret.is_signal
    /\ result.ret.extracted.condition = ""
    /\ result.ret.extracted.price = "150"
    /\ result.ret.extracted.strike = "22000"
    /\ AnchoredAt = 0

(* ---------------------------- the listener ---------------------------- *)
\* C38: a replayed message, whichever parser takes it for a signal, never
\* reaches execute_signal and places no order, and it is put at the front
\* of the buffer of its channel.
C38_ReplayNeverExecutes ==
    [][(listener'.n = listener.n + 1 /\ listener'.last.replay) =>
          /\ call' = call
          /\ stats' = stats
          /\ order_seq' = order_seq
          /\ recent_signals' = recent_signals
          /\ active_positions' = active_positions
          /\ Len(listener'.message_buffer[listener'.last.channel]) > 0
          /\ Head(listener'.message_buffer[listener'.last.channel]).message = listener'.last.text
          /\ Len(listener'.message_buffer[listener'.last.channel])
                = Len(listener.message_buffer[listener'.last.channel]) + 1]_vars

\* the history held a signal of the classifier and one of the regex
\* fallback; both are in the buffer and the service has not been called
C38_Witness ==
    /\ listener.n = 2
    /\ listener.phase = "history"
    /\ listener.last.replay
    /\ listener.last.by = "regex"
    /\ \E c \in Channels : \E k \in 1..Len(listener.message_buffer[c]) :
          listener.message_buffer[c][k].message = CashText
    /\ \E c \in Channels : \E k \in 1..Len(listener.message_buffer[c]) :
          listener.message_buffer[c][k].message = NoisyText
    /\ stats.total_signals = 0
    /\ call.n = 0

\* C33: the cash signal "BUY RELIANCE @ 2400 SL 2380 TGT 2450", as a new
\* message with the service enabled and no duplicate, is handed over with
\* neither strike nor option_type, passes validation and reaches order
\* placement.
C33_CashSignalReachesPlacement ==
    (/\ listener.n > 0
     /\ listener.last.text = CashText
     /\ ~listener.last.replay
     /\ enabled
     /\ call.msg \notin {"Low confidence", "Duplicate signal"}) =>
       /\ listener.last.executed
       /\ call.signal_data.strike = ""
       /\ call.signal_data.option_type = ""
       /\ call.placed > 0

\* what happens instead: the extraction holds the price as its strike, and
\* the signal fails validation for its missing option type
C33_CashSignalFailsValidation ==
    (/\ listener.n > 0
     /\ listener.last.text = CashText
     /\ ~listener.last.replay
     /\ enabled
     /\ call.msg \notin {"Low confidence", "Duplicate signal"}) =>
       /\ listener.last.executed
       /\ call.signal_data.strike = "2400"
       /\ call.signal_data.option_type = ""
       /\ call.placed = 0
       /\ ~call.ret
       /\ call.error = "Options signal missing 'option_type' (CE/PE)"

====
